---- MODULE Spec2Model ----
(***************************************************************************)
(* Model of claude-adapter-py's protocol translator.                       *)
(*                                                                         *)
(*  - converters/streaming.py: the SSE re-framer                           *)
(*    (convert_stream_to_anthropic, _process_chunk), fed by                *)
(*    handlers/messages.py's openai_line_iterator.                         *)
(*  - converters/request.py: tool-id deduplication while the messages of   *)
(*    a request are converted (_deduplicate_tool_id,                       *)
(*    _process_assistant_content_blocks, _process_user_content_blocks,     *)
(*    _convert_message, the loop of convert_request_to_openai).            *)
(*                                                                         *)
(* Strings the code concatenates or measures are sequences of tokens or    *)
(* characters; strings it only copies or compares are TLA+ strings.        *)
(***************************************************************************)
EXTENDS Integers, Sequences, FiniteSets, TLC

VARIABLES
    \* ---- streaming re-framer (converters/streaming.py) ----
    pc,              \* position of the generator convert_stream_to_anthropic
    content_blocks,  \* StreamState.content_blocks
    tool_calls,      \* StreamState.tool_calls : tc_index -> [id, name, input]
    usage,           \* StreamState.usage (Nil for None)
    events,          \* every SSE event yielded so far, in order
    upstream,        \* state of the upstream iterator behind openai_line_iterator
    nread,           \* number of upstream lines read so far
    line,            \* history: the line the last step consumed
    prev,            \* history: state and events before the last step
    \* ---- request conversion (converters/request.py) ----
    tool_format,     \* "native" | "xml": the tool_format argument
    seen_ids,        \* _IdDeduplicationContext.seen_ids
    id_mappings,     \* _IdDeduplicationContext.id_mappings : original id -> new ids
    result_index,    \* _IdDeduplicationContext.result_index : original id -> next mapping
    messages,        \* the upstream messages built so far
    request,         \* history: the input messages converted so far
    \* convert_request_to_openai as a whole (converters/request.py)
    anthropic_request, \* the AnthropicMessageRequest, its messages being `request`
    config,            \* the AdapterConfig argument, or NoConfig
    update_info,       \* whether get_cached_update_info() reports an update
    openai_request,    \* the returned request dict, None before the call returns
    \* handle_messages_request (handlers/messages.py)
    hpc,               \* "idle" | "received" | "awaiting" (the upstream call) | "responded"
    body,              \* the body of the POST /v1/messages request
    request_id,        \* _generate_request_id()
    upstream_request,  \* the arguments of client.chat.completions.create, None if not called
    upstream_response, \* history: the ChatCompletion the upstream call returned
    response,          \* the HTTP response returned, None before
    upstream_error,    \* history: the exception the upstream call raised
    usage_records,     \* the records record_usage appended for this request
    error_records,     \* the records record_error appended for this request
    \* the two response converters, called on their own
    openai_response,           \* the ChatCompletion to convert
    original_model_requested,  \* the model name to echo
    converted,                 \* what convert_response_to_anthropic gave, None before
    handler_converted,         \* what _convert_openai_response_to_anthropic gave, None before
    \* the tool converters (converters/tools.py), called on their own
    given_tools,         \* the tools argument of convert_tools_to_openai
    given_tool_choice,   \* the tool_choice argument of convert_tool_choice_to_openai
    openai_tools,        \* what convert_tools_to_openai returned, None before
    openai_tool_choice,  \* what convert_tool_choice_to_openai returned, None before
    tools_request,       \* the request dict built from a request with these tools, None before
    xml_instructions,    \* what generate_xml_tool_instructions returned, None before
    \* the record files (utils/file_storage.py) and the requests writing to them
    workers,             \* request -> its position, outcome, pending writes and response
    files                \* the contents of today's usage file and error file

streamVars == <<pc, content_blocks, tool_calls, usage, events, upstream, nread, line, prev>>

requestVars == <<tool_format, seen_ids, id_mappings, result_index, messages, request>>

paramVars == <<anthropic_request, config, update_info, openai_request>>

handlerVars == <<hpc, body, request_id, upstream_request, upstream_response, response, upstream_error, usage_records, error_records>>

responseVars == <<openai_response, original_model_requested, converted, handler_converted>>

toolVars == <<given_tools, given_tool_choice, openai_tools, openai_tool_choice, tools_request, xml_instructions>>

recorderVars == <<workers, files>>

vars == <<streamVars, requestVars, paramVars, handlerVars, responseVars, toolVars, recorderVars>>

\* Number of upstream lines a stream may carry.
MaxLines == 4

\* Number of messages of a request.
MaxMsgs == 3

----------------------------------------------------------------------------
\* Values

Nil == [set |-> FALSE, input_tokens |-> 0, output_tokens |-> 0]

ZeroUsage == [set |-> TRUE, input_tokens |-> 0, output_tokens |-> 0]

NoIndex == -1

\* Optional[...] fields: None, or a value.
None == <<>>
Some(v) == <<v>>
IsSome(o) == o # <<>>
ValueOf(o) == o[1]

\* config: Optional[AdapterConfig] = None; max_context_window is Optional[int].
\* ModelConfig: the upstream model of each tier.
ConfiguredModels == [opus |-> "big-model", sonnet |-> "mid-model", haiku |-> "small-model"]

NoConfig ==
    [present |-> FALSE, provider |-> "custom", max_context_window |-> None,
     models |-> ConfiguredModels, tool_format |-> "native"]
AdapterConfig(provider, max_context_window) ==
    [present |-> TRUE, provider |-> provider, max_context_window |-> max_context_window,
     models |-> ConfiguredModels, tool_format |-> "native"]

\* An upstream tool-call delta (an element of choices[0].delta.tool_calls).
\* index = NoIndex: the "index" key is missing. id is tc_delta.get("id", "").
\* name = "": no function.name. has_args: "arguments" in tc_delta["function"].
TcDelta(index, id, name, has_args, args) ==
    [index |-> index, id |-> id, name |-> name, has_args |-> has_args, args |-> args]

\* An upstream line. kind: blank | comment | nondata | done | badjson |
\* nondict (JSON that is no object) | data (a JSON object).
\* err: absent | scalar | obj_other | obj_msg | obj_type | obj_both.
Line(kind, err, u, choices, content, tcs, finish) ==
    [kind |-> kind, err |-> err, usage |-> u, choices |-> choices,
     content |-> content, tool_calls |-> tcs, finish |-> finish]

\* The "usage" member of an upstream chunk; present = the key is there and truthy.
ChunkUsage(present, p, c) ==
    [present |-> present, prompt_tokens |-> p, completion_tokens |-> c]

NoU == ChunkUsage(FALSE, 0, 0)
U1 == ChunkUsage(TRUE, 3, 1)
U2 == ChunkUsage(TRUE, 3, 2)

NoLine == Line("none", "absent", NoU, FALSE, <<>>, <<>>, FALSE)

SkipLines ==
    { Line(k, "absent", NoU, FALSE, <<>>, <<>>, FALSE) :
        k \in {"blank", "comment", "nondata", "badjson"} }

DoneLineValue == Line("done", "absent", NoU, FALSE, <<>>, <<>>, FALSE)

T0open == TcDelta(0, "t1", "f", FALSE, <<>>)
T0args == TcDelta(0, "", "", TRUE, <<"a">>)
T1both == TcDelta(1, "", "g", TRUE, <<"b">>)
T0anon == TcDelta(0, "", "f", FALSE, <<>>)
TBad   == TcDelta(NoIndex, "t2", "f", FALSE, <<>>)

DataLines ==
    { Line("data", "absent", NoU, TRUE, <<"x">>, <<>>, FALSE),
      Line("data", "absent", NoU, TRUE, <<>>, <<T0open>>, FALSE),
      Line("data", "absent", NoU, TRUE, <<>>, <<T0args>>, FALSE),
      Line("data", "absent", NoU, TRUE, <<>>, <<T1both>>, FALSE),
      Line("data", "absent", NoU, TRUE, <<>>, <<T0anon, T1both>>, FALSE),
      Line("data", "absent", NoU, TRUE, <<>>, <<>>, TRUE),
      Line("data", "absent", NoU, TRUE, <<"x">>, <<T0open>>, TRUE),
      Line("data", "absent", U1, FALSE, <<>>, <<>>, FALSE),
      Line("data", "absent", U2, TRUE, <<"y">>, <<>>, FALSE),
      Line("data", "absent", NoU, TRUE, <<"x">>, <<TBad>>, TRUE),
      Line("data", "scalar", NoU, TRUE, <<"x">>, <<>>, FALSE),
      Line("data", "obj_other", NoU, TRUE, <<>>, <<>>, TRUE),
      Line("nondict", "absent", NoU, FALSE, <<>>, <<>>, FALSE) }

ApiErrorLines ==
    { Line("data", "obj_msg", NoU, TRUE, <<"x">>, <<>>, FALSE),
      Line("data", "obj_type", U2, FALSE, <<>>, <<>>, FALSE),
      Line("data", "obj_both", NoU, FALSE, <<>>, <<>>, FALSE) }

----------------------------------------------------------------------------
\* Events (what _format_sse_event is given)

Event(type, index, ctype, text, id, name, stop_reason, u) ==
    [type |-> type, index |-> index, ctype |-> ctype, text |-> text,
     id |-> id, name |-> name, stop_reason |-> stop_reason, usage |-> u]

MessageStart == Event("message_start", NoIndex, "", <<>>, "", "", "null", ZeroUsage)

BlockStart(index, ctype, text, id, name) ==
    Event("content_block_start", index, ctype, text, id, name, "", Nil)

BlockDelta(index, dtype, text) ==
    Event("content_block_delta", index, dtype, text, "", "", "", Nil)

BlockStop(index) ==
    Event("content_block_stop", index, "", <<>>, "", "", "", Nil)

MessageDelta(stop_reason, u) ==
    Event("message_delta", NoIndex, "", <<>>, "", "", stop_reason, u)

MessageStop == Event("message_stop", NoIndex, "", <<>>, "", "", "", Nil)

----------------------------------------------------------------------------
\* StreamState and _process_chunk

Block(type, text, id, name) == [type |-> type, text |-> text, id |-> id, name |-> name]

\* The index taken after the append instead of before it.
NewBlockIndexOffByOne(blocks) == Len(blocks) + 1

\* len(state.content_blocks) before the append: the index of a block being opened.
NewBlockIndex(blocks) == Len(blocks)

\* state.usage or {"input_tokens": 0, "output_tokens": 0}
UsageOrZero(u) == IF u.set THEN u ELSE ZeroUsage

\* if "usage" in chunk and chunk["usage"]: state.usage = {...}
UpdateUsage(chunk, u) ==
    IF chunk.usage.present
    THEN [set |-> TRUE,
          input_tokens |-> chunk.usage.prompt_tokens,
          output_tokens |-> chunk.usage.completion_tokens]
    ELSE u

\* A text block opened for every text delta.
TextStepAlwaysNewBlock(content, acc) ==
    IF content = <<>> THEN acc
    ELSE
      LET blocks == acc.content_blocks
          bi     == NewBlockIndex(blocks)
      IN [acc EXCEPT !.content_blocks = Append(blocks, Block("text", content, "", "")),
                     !.out = @ \o <<BlockStart(bi, "text", <<>>, "", ""),
                                    BlockDelta(bi, "text_delta", content)>>]

\* "Handle text content": acc = [content_blocks, tool_calls, out, raised]
TextStep(content, acc) ==
    IF content = <<>> THEN acc
    ELSE
      LET blocks  == acc.content_blocks
          needNew == blocks = <<>> \/ blocks[Len(blocks)].type # "text"
          blocks1 == IF needNew THEN Append(blocks, Block("text", <<>>, "", "")) ELSE blocks
          out1    == IF needNew
                     THEN <<BlockStart(NewBlockIndex(blocks), "text", <<>>, "", "")>>
                     ELSE <<>>
          bi      == Len(blocks1) - 1
          blocks2 == [blocks1 EXCEPT ![bi + 1].text = @ \o content]
      IN [acc EXCEPT !.content_blocks = blocks2,
                     !.out = @ \o out1 \o <<BlockDelta(bi, "text_delta", content)>>]

\* "Start new tool call"
StartToolCall(tcd, acc) ==
    LET blocks == acc.content_blocks
        bi     == NewBlockIndex(blocks)
        tc     == [id |-> tcd.id, name |-> tcd.name, input |-> <<>>]
    IN [acc EXCEPT
          !.tool_calls = (tcd.index :> tc) @@ @,
          !.content_blocks = Append(blocks, Block("tool_use", <<>>, tcd.id, tcd.name)),
          !.out = Append(@, BlockStart(bi, "tool_use", <<>>, tcd.id, tc.name))]

\* next((i for i, b in enumerate(blocks) if type == "tool_use" and id == tc_id), len - 1)
FindToolBlock(blocks, tc_id) ==
    LET hits == { i \in 1..Len(blocks) :
                    blocks[i].type = "tool_use" /\ blocks[i].id = tc_id }
    IN IF hits = {} THEN Len(blocks) - 1
       ELSE (CHOOSE i \in hits : \A j \in hits : i <= j) - 1

\* "Update tool call"
UpdateToolCall(tcd, acc) ==
    LET tcs1 == [acc.tool_calls EXCEPT ![tcd.index].input = @ \o tcd.args]
        bi   == FindToolBlock(acc.content_blocks, tcs1[tcd.index].id)
    IN [acc EXCEPT !.tool_calls = tcs1,
                   !.out = Append(@, BlockDelta(bi, "input_json_delta", tcd.args))]

\* for tc_delta in delta["tool_calls"]: ...   (tc_delta["index"] raises KeyError
\* when the key is missing; what was yielded before stays yielded)
RECURSIVE ToolCallsStep(_, _)
ToolCallsStep(tcds, acc) ==
    IF tcds = <<>> \/ acc.raised THEN acc
    ELSE
      LET tcd == Head(tcds) IN
      IF tcd.index = NoIndex THEN [acc EXCEPT !.raised = TRUE]
      ELSE
        LET a1 == IF tcd.index \notin DOMAIN acc.tool_calls
                  THEN StartToolCall(tcd, acc) ELSE acc
            a2 == IF tcd.has_args THEN UpdateToolCall(tcd, a1) ELSE a1
        IN ToolCallsStep(Tail(tcds), a2)

\* "Handle finish_reason": content_block_stop for range(len(content_blocks))
FinishStep(finish, acc) ==
    IF finish /\ ~acc.raised
    THEN [acc EXCEPT !.out = @ \o [i \in 1..Len(acc.content_blocks) |-> BlockStop(i - 1)]]
    ELSE acc

\* _process_chunk(chunk, state): the new state, the events yielded, and whether
\* an exception left the generator.
process_chunk(chunk, blocks, tcs, u) ==
    LET u1   == UpdateUsage(chunk, u)
        acc0 == [content_blocks |-> blocks, tool_calls |-> tcs,
                 out |-> <<>>, raised |-> FALSE]
        acc  == IF ~chunk.choices THEN acc0
                ELSE FinishStep(chunk.finish,
                        ToolCallsStep(chunk.tool_calls, TextStep(chunk.content, acc0)))
    IN [content_blocks |-> acc.content_blocks, tool_calls |-> acc.tool_calls,
        usage |-> u1, out |-> acc.out, raised |-> acc.raised]

----------------------------------------------------------------------------
\* convert_stream_to_anthropic

\* Any "error" member taken for an API error, whatever its shape.
IsApiErrorAnyValue(err) == err # "absent"

\* isinstance(error, dict) and ("message" in error or "type" in error)
IsApiError(err) == err \in {"obj_msg", "obj_type", "obj_both"}

\* error.get("message", "Unknown error")
ErrorMessage(err) == IF err \in {"obj_msg", "obj_both"} THEN "m" ELSE "Unknown error"

\* f"Error: {error_message}"
ErrorText(message) == <<"Error: ", message>>

\* The error termination with its final message_stop forgotten.
ErrorTailNoStop(blocks, u, message) ==
    <<BlockStart(NewBlockIndex(blocks), "text", ErrorText(message), "", ""),
      BlockStop(NewBlockIndex(blocks)),
      MessageDelta("error", UsageOrZero(u))>>

\* The four events of an error termination (lines 93-116 and 126-145).
ErrorTail(blocks, u, message) ==
    <<BlockStart(NewBlockIndex(blocks), "text", ErrorText(message), "", ""),
      BlockStop(NewBlockIndex(blocks)),
      MessageDelta("error", UsageOrZero(u)),
      MessageStop>>

\* The final message_delta emitted whether or not a usage was seen.
FinalEventsAlwaysDelta(u) ==
    <<MessageDelta("end_turn", UsageOrZero(u)), MessageStop>>

\* After the loop: message_delta when state.usage, then message_stop.
FinalEvents(u) ==
    (IF u.set THEN <<MessageDelta("end_turn", u)>> ELSE <<>>) \o <<MessageStop>>

Snapshot == [content_blocks |-> content_blocks, tool_calls |-> tool_calls,
             usage |-> usage, events |-> events]

StreamInit ==
    /\ pc = "start"
    /\ content_blocks = <<>>
    /\ tool_calls = <<>>
    /\ usage = Nil
    /\ events = <<>>
    /\ upstream = "open"
    /\ nread = 0
    /\ line = NoLine
    /\ prev = [content_blocks |-> <<>>, tool_calls |-> <<>>, usage |-> Nil, events |-> <<>>]

\* The generator's first step: yield message_start.
StreamOpen ==
    /\ pc = "start"
    /\ pc' = "reading"
    /\ events' = <<MessageStart>>
    /\ prev' = Snapshot
    /\ UNCHANGED <<content_blocks, tool_calls, usage, upstream, nread, line>>
    /\ UNCHANGED <<requestVars, paramVars, handlerVars, responseVars, toolVars, recorderVars>>

CanRead == pc = "reading" /\ upstream = "open" /\ nread < MaxLines

\* json.JSONDecodeError handled by the `except Exception` termination.
SkipLineBadJsonTerminates ==
    /\ CanRead
    /\ nread' = nread + 1
    /\ UNCHANGED upstream
    /\ \E l \in SkipLines :
         IF l.kind = "badjson"
         THEN /\ pc' = "done"
              /\ content_blocks' =
                    Append(content_blocks, Block("text", ErrorText("JSONDecodeError"), "", ""))
              /\ events' = events \o ErrorTail(content_blocks, usage, "JSONDecodeError")
              /\ line' = l
              /\ prev' = Snapshot
              /\ UNCHANGED <<tool_calls, usage>>
              /\ UNCHANGED <<requestVars, paramVars, handlerVars, responseVars, toolVars, recorderVars>>
         ELSE /\ line' = l
              /\ prev' = Snapshot
              /\ UNCHANGED <<pc, content_blocks, tool_calls, usage, events>>
              /\ UNCHANGED <<requestVars, paramVars, handlerVars, responseVars, toolVars, recorderVars>>

\* A blank line, a comment, a line without the "data: " prefix, or a data line
\* that is no JSON: continue.
SkipLine ==
    /\ CanRead
    /\ \E l \in SkipLines : line' = l
    /\ nread' = nread + 1
    /\ prev' = Snapshot
    /\ UNCHANGED <<pc, content_blocks, tool_calls, usage, events, upstream>>
    /\ UNCHANGED <<requestVars, paramVars, handlerVars, responseVars, toolVars, recorderVars>>

\* Leaving the loop: the final message_delta / message_stop.
Finish(l, up) ==
    /\ pc' = "done"
    /\ events' = events \o FinalEvents(usage)
    /\ line' = l
    /\ upstream' = up
    /\ prev' = Snapshot
    /\ UNCHANGED <<content_blocks, tool_calls, usage>>
    /\ UNCHANGED <<requestVars, paramVars, handlerVars, responseVars, toolVars, recorderVars>>

\* data: [DONE] -> break
DoneLine ==
    /\ CanRead
    /\ nread' = nread + 1
    /\ Finish(DoneLineValue, upstream)

\* The upstream iterator is exhausted without [DONE].
EndOfStream ==
    /\ pc = "reading" /\ upstream = "open"
    /\ UNCHANGED nread
    /\ Finish(NoLine, "exhausted")

\* The error termination of lines 89-117 and 123-146, after `before` was yielded
\* by the chunk itself.
Terminate(l, blocks, tcs, u, before, message) ==
    /\ pc' = "done"
    /\ content_blocks' = Append(blocks, Block("text", ErrorText(message), "", ""))
    /\ tool_calls' = tcs
    /\ usage' = u
    /\ events' = events \o before \o ErrorTail(blocks, u, message)
    /\ line' = l
    /\ prev' = Snapshot
    /\ UNCHANGED <<requestVars, paramVars, handlerVars, responseVars, toolVars, recorderVars>>

\* A data line that is JSON: the API-error termination, _process_chunk, or the
\* `except Exception` termination.
DataChunk ==
    /\ CanRead
    /\ nread' = nread + 1
    /\ UNCHANGED upstream
    /\ \E l \in DataLines \cup ApiErrorLines :
         IF l.kind = "nondict"
         THEN Terminate(l, content_blocks, tool_calls, usage, <<>>, "TypeError")
         ELSE IF IsApiError(l.err)
         THEN Terminate(l, content_blocks, tool_calls, usage, <<>>, ErrorMessage(l.err))
         ELSE LET r == process_chunk(l, content_blocks, tool_calls, usage) IN
              IF r.raised
              THEN Terminate(l, r.content_blocks, r.tool_calls, r.usage, r.out, "KeyError")
              ELSE /\ content_blocks' = r.content_blocks
                   /\ tool_calls' = r.tool_calls
                   /\ usage' = r.usage
                   /\ events' = events \o r.out
                   /\ line' = l
                   /\ prev' = Snapshot
                   /\ UNCHANGED pc
                   /\ UNCHANGED <<requestVars, paramVars, handlerVars, responseVars, toolVars, recorderVars>>

\* openai_line_iterator: the upstream raises OpenAIAPIError; it is turned into an
\* error data line (type and message), which the converter then reads.
UpstreamApiError ==
    /\ pc = "reading" /\ upstream = "open"
    /\ upstream' = "api_error"
    /\ UNCHANGED nread
    /\ LET l == Line("data", "obj_both", NoU, FALSE, <<>>, <<>>, FALSE) IN
         /\ IsApiError(l.err)
         /\ Terminate(l, content_blocks, tool_calls, usage, <<>>, ErrorMessage(l.err))

\* openai_line_iterator: the upstream raises anything else (httpx.ReadTimeout,
\* httpx.RemoteProtocolError, ...). Nothing catches it: it leaves
\* openai_line_iterator and then the `async for` of convert_stream_to_anthropic.
UpstreamOtherError ==
    /\ pc = "reading" /\ upstream = "open"
    /\ upstream' = "other_error"
    /\ pc' = "raised"
    /\ line' = NoLine
    /\ prev' = Snapshot
    /\ UNCHANGED <<content_blocks, tool_calls, usage, events, nread>>
    /\ UNCHANGED <<requestVars, paramVars, handlerVars, responseVars, toolVars, recorderVars>>

StreamNext ==
    \/ StreamOpen
    \/ SkipLine
    \/ DoneLine
    \/ EndOfStream
    \/ DataChunk
    \/ UpstreamApiError
    \/ UpstreamOtherError

\* No request is being converted.
RequestIdle ==
    /\ tool_format = "native"
    /\ seen_ids = {}
    /\ id_mappings = <<>>
    /\ result_index = <<>>
    /\ messages = <<>>
    /\ request = <<>>

\* convert_request_to_openai is not being called.
ParamsIdle ==
    /\ anthropic_request = None
    /\ config = NoConfig
    /\ update_info = FALSE
    /\ openai_request = None

\* No request is being handled.
HandlerIdle ==
    /\ hpc = "idle"
    /\ body = None
    /\ request_id = None
    /\ upstream_request = None
    /\ upstream_response = None
    /\ response = None
    /\ upstream_error = None
    /\ usage_records = <<>>
    /\ error_records = <<>>

\* No response is being converted.
ResponseIdle ==
    /\ openai_response = None
    /\ original_model_requested = None
    /\ converted = None
    /\ handler_converted = None

\* No tool conversion is called on its own.
ToolsIdle ==
    /\ given_tools = <<>>
    /\ given_tool_choice = None
    /\ openai_tools = None
    /\ openai_tool_choice = None
    /\ tools_request = None
    /\ xml_instructions = None

\* No request is recording.
RecorderIdle ==
    /\ workers = <<>>
    /\ files = [usage |-> <<>>, error |-> <<>>]

Init == StreamInit /\ RequestIdle /\ ParamsIdle /\ HandlerIdle /\ ResponseIdle /\ ToolsIdle /\ RecorderIdle

Next == StreamNext

\* The streaming re-framer.
Spec == Init /\ [][Next]_vars

----------------------------------------------------------------------------
\* converters/request.py: strings are sequences of characters

\* random.choices draws from string.ascii_letters + string.digits; two of them here.
Chars == {"a", "b"}

\* random.choices(chars, k = k)
RandomChoices(k) == [1..k -> Chars]

\* if original_len > 11: keep the first 8 characters
PrefixThreshold == 11
KeepPrefix == 8

EmptyId == <<>>
ShortId == <<"a">>
LongId == <<"c", "a", "l", "l", "_", "0", "0", "1", "a", "a", "a", "a">>

Ids == {EmptyId, ShortId, LongId}

IsSpace(c) == c \in {" ", "\n", "\t"}

RECURSIVE LStrip(_)
LStrip(str) == IF str # <<>> /\ IsSpace(Head(str)) THEN LStrip(Tail(str)) ELSE str

RECURSIVE RStrip(_)
RStrip(str) ==
    IF str # <<>> /\ IsSpace(str[Len(str)])
    THEN RStrip(SubSeq(str, 1, Len(str) - 1)) ELSE str

\* str.strip()
Strip(str) == RStrip(LStrip(str))

\* str.startswith(p)
StartsWith(str, p) == Len(str) >= Len(p) /\ SubSeq(str, 1, Len(p)) = p

\* p in str
Contains(str, p) ==
    \E i \in 1..(Len(str) - Len(p) + 1) : SubSeq(str, i, i + Len(p) - 1) = p

ToolCodeOpen == <<"<", "t", "o", "o", "l", "_", "c", "o", "d", "e">>
ToolCodeClose == <<"<", "/", "t", "o", "o", "l", "_", "c", "o", "d", "e", ">">>

\* ["{", "[", "```", '{"', "[{", "<", "<tool_code", "<tool_code>"], with "BQ" for
\* the backtick and "DQ" for the double quote.
prefill_tokens ==
    { <<"{">>, <<"[">>, <<"BQ", "BQ", "BQ">>, <<"{", "DQ">>, <<"[", "{">>, <<"<">>,
      ToolCodeOpen, ToolCodeOpen \o <<">">> }

\* _is_assistant_prefill without the strip() of the content
is_assistant_prefill_untrimmed(content) ==
    \/ content \in prefill_tokens
    \/ Len(content) <= 2
    \/ StartsWith(content, ToolCodeOpen) /\ ~Contains(content, ToolCodeClose)

is_assistant_prefill(content) ==
    LET trimmed == Strip(content) IN
    \/ trimmed \in prefill_tokens
    \/ Len(trimmed) <= 2
    \/ StartsWith(trimmed, ToolCodeOpen) /\ ~Contains(trimmed, ToolCodeClose)

----------------------------------------------------------------------------
\* Anthropic content blocks and messages (models/anthropic.py)

\* ToolResultBlock.content: a string, a list of parts, or anything else.
StrContent(text) == [kind |-> "str", text |-> text, parts |-> <<>>]
ListContent(parts) == [kind |-> "list", text |-> <<>>, parts |-> parts]

ContentBlock(type, text, id, name, input, content, is_error) ==
    [type |-> type, text |-> text, id |-> id, name |-> name, input |-> input,
     content |-> content, is_error |-> is_error]

TextBlock(text) == ContentBlock("text", text, <<>>, "", "", StrContent(<<>>), FALSE)

ToolUseBlock(id, name, input) ==
    ContentBlock("tool_use", <<>>, id, name, input, StrContent(<<>>), FALSE)

ToolResultBlock(tool_use_id, content, is_error) ==
    ContentBlock("tool_result", <<>>, tool_use_id, "", "", content, is_error)

\* AnthropicMessage: content is a string (is_str) or a list of blocks.
Message(role, is_str, text, blocks) ==
    [role |-> role, is_str |-> is_str, text |-> text, blocks |-> blocks]

----------------------------------------------------------------------------
\* Upstream messages (models/openai.py), after model_dump(exclude_none = True)

NoContent == [kind |-> "none", text |-> <<>>, parts |-> <<>>]
StringContent(text) == [kind |-> "str", text |-> text, parts |-> <<>>]
PartsContent(parts) == [kind |-> "parts", text |-> <<>>, parts |-> parts]

OpenAIMessage(role, content, tcs, tool_call_id) ==
    [role |-> role, content |-> content, tool_calls |-> tcs, tool_call_id |-> tool_call_id]

\* json.dumps(block.input, ensure_ascii = False)
JsonDumps(value) == IF value = "in1" THEN "json(in1)" ELSE "json(in2)"

ToolCall(id, name, input) ==
    [id |-> id, type |-> "function", name |-> name, arguments |-> JsonDumps(input)]

----------------------------------------------------------------------------
\* _IdDeduplicationContext and _deduplicate_tool_id

NewContext == [seen_ids |-> {}, id_mappings |-> <<>>, result_index |-> <<>>]

\* The number of characters _deduplicate_tool_id draws for tool_id.
RandomLen(tool_id) ==
    IF Len(tool_id) > PrefixThreshold THEN Len(tool_id) - KeepPrefix ELSE Len(tool_id)

\* _deduplicate_tool_id without its early return for an id not seen before.
deduplicate_tool_id_always(tool_id, ctx, rnd) ==
    LET new_id == IF Len(tool_id) > PrefixThreshold
                  THEN SubSeq(tool_id, 1, KeepPrefix) \o rnd
                  ELSE rnd
        old    == IF tool_id \in DOMAIN ctx.id_mappings
                  THEN ctx.id_mappings[tool_id] ELSE <<>>
    IN [id |-> new_id,
        ctx |-> [ctx EXCEPT !.seen_ids = @ \cup {new_id},
                            !.id_mappings = (tool_id :> Append(old, new_id)) @@ @]]

\* _deduplicate_tool_id(tool_id, ctx), rnd being what random.choices returns.
deduplicate_tool_id(tool_id, ctx, rnd) ==
    IF tool_id \notin ctx.seen_ids
    THEN [id |-> tool_id, ctx |-> [ctx EXCEPT !.seen_ids = @ \cup {tool_id}]]
    ELSE
      LET new_id == IF Len(tool_id) > PrefixThreshold
                    THEN SubSeq(tool_id, 1, KeepPrefix) \o rnd
                    ELSE rnd
          old    == IF tool_id \in DOMAIN ctx.id_mappings
                    THEN ctx.id_mappings[tool_id] ELSE <<>>
      IN [id |-> new_id,
          ctx |-> [ctx EXCEPT !.seen_ids = @ \cup {new_id},
                              !.id_mappings = (tool_id :> Append(old, new_id)) @@ @]]

\* "\n".join(parts)
RECURSIVE JoinWith(_, _)
JoinWith(sep, parts) ==
    IF parts = <<>> THEN <<>>
    ELSE IF Len(parts) = 1 THEN parts[1]
    ELSE parts[1] \o sep \o JoinWith(sep, Tail(parts))

\* [c.get("text", "") for c in block.content if c.get("type") == "text"]
RECURSIVE TextsOf(_)
TextsOf(parts) ==
    IF parts = <<>> THEN <<>>
    ELSE (IF parts[1].type = "text" THEN <<parts[1].text>> ELSE <<>>) \o TextsOf(Tail(parts))

\* "Extract content"
ResultContent(content) ==
    IF content.kind = "str" THEN content.text
    ELSE IF content.kind = "list" THEN JoinWith(<<"\n">>, TextsOf(content.parts))
    ELSE <<>>

\* "Look up deduplicated ID": the tool_call_id of a tool_result and the new context.
LookupToolCallId(tool_use_id, ctx) ==
    LET has      == tool_use_id \in DOMAIN ctx.id_mappings
        mappings == IF has THEN ctx.id_mappings[tool_use_id] ELSE <<>>
        idx      == IF tool_use_id \in DOMAIN ctx.result_index
                    THEN ctx.result_index[tool_use_id] ELSE 0
    IN IF has /\ idx < Len(mappings)
       THEN [tool_call_id |-> mappings[idx + 1],
             ctx |-> [ctx EXCEPT !.result_index = (tool_use_id :> (idx + 1)) @@ @]]
       ELSE [tool_call_id |-> tool_use_id, ctx |-> ctx]

\* _process_user_content_blocks: acc = [user_content, tool_results, ctx]
RECURSIVE process_user_content_blocks(_, _)
process_user_content_blocks(blocks, acc) ==
    IF blocks = <<>> THEN acc
    ELSE
      LET b == Head(blocks)
          next ==
            IF b.type = "text"
            THEN [acc EXCEPT !.user_content = Append(@, b.text)]
            ELSE IF b.type = "tool_result"
            THEN LET c0 == ResultContent(b.content)
                     r  == LookupToolCallId(b.id, acc.ctx)
                     c1 == IF b.is_error THEN <<"E", "r", "r", "o", "r", ":", " ">> \o c0 ELSE c0
                 IN [acc EXCEPT
                       !.tool_results =
                           Append(@, OpenAIMessage("tool", StringContent(c1), <<>>, r.tool_call_id)),
                       !.ctx = r.ctx]
            ELSE acc
      IN process_user_content_blocks(Tail(blocks), next)

\* _process_assistant_content_blocks: acc = [text_content, tool_calls, ctx]; the
\* set of results over what random.choices may return.
RECURSIVE process_assistant_content_blocks(_, _)
process_assistant_content_blocks(blocks, acc) ==
    IF blocks = <<>> THEN {acc}
    ELSE
      LET b == Head(blocks) IN
      IF b.type = "text"
      THEN process_assistant_content_blocks(
               Tail(blocks), [acc EXCEPT !.text_content = @ \o b.text])
      ELSE IF b.type = "tool_use"
      THEN UNION {
             LET r == deduplicate_tool_id(b.id, acc.ctx, rnd) IN
             process_assistant_content_blocks(
                 Tail(blocks),
                 [acc EXCEPT !.tool_calls = Append(@, ToolCall(r.id, b.name, b.input)),
                             !.ctx = r.ctx])
             : rnd \in RandomChoices(RandomLen(b.id)) }
      ELSE process_assistant_content_blocks(Tail(blocks), acc)

\* tool_call_id of a message that has none
NoId == <<"None">>

RECURSIVE Concat(_)
Concat(parts) == IF parts = <<>> THEN <<>> ELSE Head(parts) \o Concat(Tail(parts))

\* _convert_message, role user, block content: lines 274-307
UserMessages(user_content, tool_results, fmt) ==
    IF fmt = "xml"
    THEN
      LET flat0 == Concat(user_content)
          xml   == JoinWith(<<"\n\n">>,
                     [i \in 1..Len(tool_results) |->
                        <<"<tool_output>\n">> \o tool_results[i].content.text
                           \o <<"\n</tool_output>">>])
          flat  == IF tool_results # <<>>
                   THEN (IF flat0 # <<>> THEN flat0 \o <<"\n\n">> ELSE flat0) \o xml
                   ELSE flat0
      IN IF flat # <<>>
         THEN <<OpenAIMessage("user", StringContent(flat), <<>>, NoId)>>
         ELSE <<>>
    ELSE
      tool_results \o
        (IF user_content = <<>> THEN <<>>
         ELSE IF Len(user_content) = 1
         THEN <<OpenAIMessage("user", StringContent(user_content[1]), <<>>, NoId)>>
         ELSE <<OpenAIMessage("user", PartsContent(user_content), <<>>, NoId)>>)

\* _convert_message, role assistant, block content: lines 309-340
AssistantMessages(text_content, tcs, fmt) ==
    IF tcs = <<>> /\ text_content # <<>> /\ is_assistant_prefill(text_content)
    THEN <<>>
    ELSE IF fmt = "xml"
    THEN
      LET xml  == JoinWith(<<"\n\n">>,
                    [i \in 1..Len(tcs) |->
                       <<"<tool_code name=", "DQ", tcs[i].name, "DQ", ">\n",
                         tcs[i].arguments, "\n</tool_code>">>])
          full == IF tcs # <<>>
                  THEN (IF text_content # <<>> THEN text_content \o <<"\n\n">>
                        ELSE text_content) \o xml
                  ELSE text_content
      IN <<OpenAIMessage("assistant", StringContent(full), <<>>, NoId)>>
    ELSE
      <<OpenAIMessage("assistant",
                      IF text_content # <<>> THEN StringContent(text_content) ELSE NoContent,
                      tcs, NoId)>>

\* _convert_message(msg, ctx, tool_format): the possible (result, ctx).
convert_message(msg, ctx, fmt) ==
    IF msg.is_str
    THEN { [result |->
              IF msg.role = "user"
              THEN <<OpenAIMessage("user", StringContent(msg.text), <<>>, NoId)>>
              ELSE IF ~is_assistant_prefill(msg.text)
              THEN <<OpenAIMessage("assistant", StringContent(msg.text), <<>>, NoId)>>
              ELSE <<>>,
            ctx |-> ctx] }
    ELSE IF msg.role = "user"
    THEN LET r == process_user_content_blocks(
                      msg.blocks,
                      [user_content |-> <<>>, tool_results |-> <<>>, ctx |-> ctx])
         IN { [result |-> UserMessages(r.user_content, r.tool_results, fmt),
               ctx |-> r.ctx] }
    ELSE { [result |-> AssistantMessages(r.text_content, r.tool_calls, fmt),
            ctx |-> r.ctx] :
           r \in process_assistant_content_blocks(
                     msg.blocks,
                     [text_content |-> <<>>, tool_calls |-> <<>>, ctx |-> ctx]) }

----------------------------------------------------------------------------
\* convert_request_to_openai: the loop over anthropic_request.messages

Use(id) == ToolUseBlock(id, "f", "in1")
Res(id) == ToolResultBlock(id, StrContent(<<"r">>), FALSE)
Txt == TextBlock(<<"h", "i", "!">>)

AssistantInputs ==
    { Message("assistant", FALSE, <<>>, bs) :
        bs \in { <<Use(i)>> : i \in Ids }
               \cup { <<Use(i), Use(i)>> : i \in {EmptyId, ShortId} }
               \cup { <<Txt, Use(ShortId)>> } }

UserInputs ==
    { Message("user", FALSE, <<>>, bs) :
        bs \in { <<Res(i)>> : i \in Ids }
               \cup { <<Res(i), Res(i)>> : i \in {EmptyId, ShortId} }
               \cup { <<Txt, Res(ShortId)>> } }

ToolFormats == {"native", "xml"}

Context == [seen_ids |-> seen_ids, id_mappings |-> id_mappings,
            result_index |-> result_index]

\* ctx = _IdDeduplicationContext(); messages = []
RequestInit ==
    /\ tool_format \in ToolFormats
    /\ seen_ids = NewContext.seen_ids
    /\ id_mappings = NewContext.id_mappings
    /\ result_index = NewContext.result_index
    /\ messages = <<>>
    /\ request = <<>>

\* One iteration of `for msg in anthropic_request.messages`.
ConvertMessage ==
    /\ Len(request) < MaxMsgs
    /\ \E msg \in AssistantInputs \cup UserInputs :
         \E r \in convert_message(msg, Context, tool_format) :
            /\ messages' = messages \o r.result
            /\ seen_ids' = r.ctx.seen_ids
            /\ id_mappings' = r.ctx.id_mappings
            /\ result_index' = r.ctx.result_index
            /\ request' = Append(request, msg)
    /\ UNCHANGED tool_format
    /\ UNCHANGED <<streamVars, paramVars, handlerVars, responseVars, toolVars, recorderVars>>

RequestNext == ConvertMessage

\* The message loop of convert_request_to_openai.
InitRequest == StreamInit /\ RequestInit /\ ParamsIdle /\ HandlerIdle /\ ResponseIdle /\ ToolsIdle /\ RecorderIdle

SpecRequest == InitRequest /\ [][RequestNext]_vars

----------------------------------------------------------------------------
\* convert_request_to_openai as a whole: system prompt, messages, parameters

\* providers.py: max_context_window of the provider's preset.
PresetContextWindow(provider) ==
    CASE provider = "ollama" -> Some(8192)
      [] provider = "lmstudio" -> Some(131072)
      [] OTHER -> None

\* AnthropicToolDefinition
ToolDefinition(name, description, input_schema) ==
    [name |-> name, description |-> description, input_schema |-> input_schema]

\* tool_choice: a string (kind "str", the string being `type`), an
\* AnthropicToolChoice object (kind "model"), a plain dict (kind "dict") or a
\* value of another type (kind "other"); type is "" when the dict has no type,
\* name is None when there is none.
ToolChoice(kind, type, name) == [kind |-> kind, type |-> type, name |-> name]

\* AnthropicMessageRequest without its messages, which are `request`.
\* temperature and top_p are in tenths.
AnthropicRequest(model, max_tokens, system, temperature, top_p, stop_sequences, stream, tools, tool_choice) ==
    [model |-> model, max_tokens |-> max_tokens, system |-> system,
     temperature |-> temperature, top_p |-> top_p, stop_sequences |-> stop_sequences,
     stream |-> stream, tools |-> tools, tool_choice |-> tool_choice]

\* A system prompt is a sequence of tokens, the identifier being one of them.
CLAUDE_CODE_IDENTIFIER == "You are Claude Code, Anthropic's official CLI for Claude."

\* _modify_system_prompt_for_adapter: str.replace of every occurrence.
modify_system_prompt_for_adapter(system_content, has_update) ==
    LET replacement == IF has_update
                       THEN <<"You are Claude Code, running on Claude Adapter Python",
                              " IMPORTANT: A new version is available">>
                       ELSE <<"You are Claude Code, running on Claude Adapter Python">>
    IN Concat([i \in 1..Len(system_content) |->
                 IF system_content[i] = CLAUDE_CODE_IDENTIFIER
                 THEN replacement ELSE <<system_content[i]>>])

\* generate_xml_tool_instructions(tools): "" for no tools, else the fixed text
\* followed by the list of the tools
generate_xml_tool_instructions(tools) ==
    IF tools = <<>> THEN <<>>
    ELSE <<"\n# TOOL CALLING FORMAT ... ## Available Tools:\n">>
         \o JoinWith(<<"\n\n">>,
                     [i \in 1..Len(tools) |->
                        <<"- **", tools[i].name, "**: ", tools[i].description,
                          "\n  Parameters: ", tools[i].input_schema>>])
         \o <<"\n">>

\* `if anthropic_request.system:` and `if anthropic_request.tools:`
SystemIsSet(system) ==
    \/ system.kind = "str" /\ system.text # <<>>
    \/ system.kind = "list" /\ system.parts # <<>>

ToolsAreSet(tools) == IsSome(tools) /\ ValueOf(tools) # <<>>

\* system_messages injecting in XML mode whether or not there are tools
system_messages_always_injecting(req, fmt, has_update) ==
    LET system_content ==
          IF req.system.kind = "str" THEN req.system.text
          ELSE JoinWith(<<"\n">>, [i \in 1..Len(req.system.parts) |-> req.system.parts[i].text])
        base == IF SystemIsSet(req.system)
                THEN <<OpenAIMessage("system",
                          StringContent(modify_system_prompt_for_adapter(system_content, has_update)),
                          <<>>, NoId)>>
                ELSE <<>>
    IN IF fmt = "xml"
       THEN LET xml == generate_xml_tool_instructions(
                          IF IsSome(req.tools) THEN ValueOf(req.tools) ELSE <<>>) IN
            IF base # <<>>
            THEN <<OpenAIMessage("system",
                      StringContent(base[1].content.text \o <<"\n\n">> \o xml), <<>>, NoId)>>
            ELSE <<OpenAIMessage("system", StringContent(xml), <<>>, NoId)>>
       ELSE base

\* lines 365-388: the messages before the loop
system_messages(req, fmt, has_update) ==
    LET system_content ==
          IF req.system.kind = "str" THEN req.system.text
          ELSE JoinWith(<<"\n">>, [i \in 1..Len(req.system.parts) |-> req.system.parts[i].text])
        base == IF SystemIsSet(req.system)
                THEN <<OpenAIMessage("system",
                          StringContent(modify_system_prompt_for_adapter(system_content, has_update)),
                          <<>>, NoId)>>
                ELSE <<>>
    IN IF fmt = "xml" /\ ToolsAreSet(req.tools)
       THEN LET xml == generate_xml_tool_instructions(ValueOf(req.tools)) IN
            IF base # <<>>
            THEN <<OpenAIMessage("system",
                      StringContent(base[1].content.text \o <<"\n\n">> \o xml), <<>>, NoId)>>
            ELSE <<OpenAIMessage("system", StringContent(xml), <<>>, NoId)>>
       ELSE base

RECURSIVE convert_messages(_, _, _)

\* The loop with each translation put in front of what was collected.
convert_messages_prepending(msgs, acc, fmt) ==
    IF msgs = <<>> THEN {acc}
    ELSE UNION { convert_messages(Tail(msgs),
                                  [messages |-> r.result \o acc.messages, ctx |-> r.ctx],
                                  fmt)
                 : r \in convert_message(Head(msgs), acc.ctx, fmt) }

\* lines 389-399: the loop, acc = [messages, ctx]; the set of its possible results.
convert_messages(msgs, acc, fmt) ==
    IF msgs = <<>> THEN {acc}
    ELSE UNION { convert_messages(Tail(msgs),
                                  [messages |-> acc.messages \o r.result, ctx |-> r.ctx],
                                  fmt)
                 : r \in convert_message(Head(msgs), acc.ctx, fmt) }

\* line 401 without the rewrite of 1
max_tokens_as_given(max_tokens) == max_tokens

\* line 401: "Azure OpenAI validation fix: convert 1 to 32"
max_tokens_fix(max_tokens) == IF max_tokens = 1 THEN 32 ELSE max_tokens

\* lines 405-417: int(preset.max_context_window * 0.9) caps max_tokens
limit_max_tokens(max_tokens, cfg) ==
    IF cfg.present
    THEN LET w == PresetContextWindow(cfg.provider) IN
         IF IsSome(w) /\ ValueOf(w) # 0 /\ max_tokens # 0
         THEN LET max_allowed == (ValueOf(w) * 9) \div 10 IN
              IF max_tokens > max_allowed THEN max_allowed ELSE max_tokens
         ELSE max_tokens
    ELSE max_tokens

\* convert_tools_to_openai with the list built back to front
convert_tools_reversed(tools) ==
    [i \in 1..Len(tools) |->
       [type |-> "function",
        function |-> [name |-> tools[Len(tools) + 1 - i].name,
                      description |-> tools[Len(tools) + 1 - i].description,
                      parameters |-> tools[Len(tools) + 1 - i].input_schema]]]

\* convert_tools_to_openai
convert_tools_to_openai(tools) ==
    [i \in 1..Len(tools) |->
       [type |-> "function",
        function |-> [name |-> tools[i].name, description |-> tools[i].description,
                      parameters |-> tools[i].input_schema]]]

\* What convert_tool_choice_to_openai returns: a string, or a function choice.
ChoiceString(str) == [type |-> str, name |-> None]
ChoiceFunction(name) == [type |-> "function", name |-> Some(name)]

\* convert_tool_choice_to_openai with "any" given the default
convert_tool_choice_any_as_auto(tool_choice) ==
    IF tool_choice.kind = "dict" /\ tool_choice.type = "tool" /\ IsSome(tool_choice.name)
    THEN ChoiceFunction(ValueOf(tool_choice.name))
    ELSE ChoiceString("auto")

\* convert_tool_choice_to_openai
convert_tool_choice_to_openai(tool_choice) ==
    IF tool_choice.kind = "str"
    THEN IF tool_choice.type = "auto" THEN ChoiceString("auto")
         ELSE IF tool_choice.type = "any" THEN ChoiceString("required")
         ELSE ChoiceString("auto")
    ELSE IF tool_choice.kind = "dict"
    THEN IF tool_choice.type = "tool" /\ IsSome(tool_choice.name)
         THEN ChoiceFunction(ValueOf(tool_choice.name))
         ELSE IF tool_choice.type = "auto" THEN ChoiceString("auto")
         ELSE IF tool_choice.type = "any" THEN ChoiceString("required")
         ELSE ChoiceString("auto")
    ELSE ChoiceString("auto")

\* `if anthropic_request.tool_choice`: set, and neither "" nor {}.
ToolChoiceIsSet(tool_choice) ==
    /\ IsSome(tool_choice)
    /\ ~(ValueOf(tool_choice).kind = "str" /\ ValueOf(tool_choice).type = "")
    /\ ~(ValueOf(tool_choice).kind = "dict" /\ ValueOf(tool_choice).type = ""
         /\ ValueOf(tool_choice).name = None)

\* build_openai_request without the XML override of the temperature
build_openai_request_keeping_temperature(req, target_model, msgs, fmt, cfg) ==
    [model |-> target_model,
     messages |-> msgs,
     max_tokens |-> limit_max_tokens(max_tokens_fix(req.max_tokens), cfg),
     stream |-> IF IsSome(req.stream) THEN ValueOf(req.stream) ELSE FALSE,
     stream_options |-> IF IsSome(req.stream) /\ ValueOf(req.stream)
                        THEN Some("include_usage") ELSE None,
     temperature |-> req.temperature,
     top_p |-> req.top_p,
     stop |-> IF IsSome(req.stop_sequences) /\ ValueOf(req.stop_sequences) # <<>>
              THEN req.stop_sequences ELSE None,
     tools |-> IF fmt = "native" /\ ToolsAreSet(req.tools)
               THEN Some(convert_tools_to_openai(ValueOf(req.tools))) ELSE None,
     tool_choice |-> IF fmt = "native" /\ ToolChoiceIsSet(req.tool_choice)
                     THEN Some(convert_tool_choice_to_openai(ValueOf(req.tool_choice)))
                     ELSE None]

\* lines 401-457: the request dict; a key that is not set is None.
build_openai_request(req, target_model, msgs, fmt, cfg) ==
    [model |-> target_model,
     messages |-> msgs,
     max_tokens |-> limit_max_tokens(max_tokens_fix(req.max_tokens), cfg),
     stream |-> IF IsSome(req.stream) THEN ValueOf(req.stream) ELSE FALSE,
     stream_options |-> IF IsSome(req.stream) /\ ValueOf(req.stream)
                        THEN Some("include_usage") ELSE None,
     temperature |-> IF fmt = "xml" THEN Some(0) ELSE req.temperature,
     top_p |-> req.top_p,
     stop |-> IF IsSome(req.stop_sequences) /\ ValueOf(req.stop_sequences) # <<>>
              THEN req.stop_sequences ELSE None,
     tools |-> IF fmt = "native" /\ ToolsAreSet(req.tools)
               THEN Some(convert_tools_to_openai(ValueOf(req.tools))) ELSE None,
     tool_choice |-> IF fmt = "native" /\ ToolChoiceIsSet(req.tool_choice)
                     THEN Some(convert_tool_choice_to_openai(ValueOf(req.tool_choice)))
                     ELSE None]

\* Inputs of convert_request_to_openai

NoSystem == [kind |-> "none", text |-> <<>>, parts |-> <<>>]

Systems ==
    { NoSystem,
      StrContent(<<"Be brief.">>),
      StrContent(<<CLAUDE_CODE_IDENTIFIER, " Be brief.">>),
      ListContent(<<TextBlock(<<"A">>), TextBlock(<<"B">>)>>) }

Tool1 == ToolDefinition("f", "reads a file", "{schema}")

ToolChoices ==
    { None,
      Some(ToolChoice("str", "auto", None)),
      Some(ToolChoice("str", "any", None)),
      Some(ToolChoice("model", "any", None)),
      Some(ToolChoice("model", "tool", Some("f"))) }

\* max_tokens around 1, the spec's reserve and the two presets' limits
MaxTokensInputs == {1, 2, 32, 256, 3840, 7372, 7373, 8000, 117965}

Configs ==
    { NoConfig } \cup
    { AdapterConfig(p, w) : p \in {"ollama", "lmstudio", "custom"},
                            w \in {None, Some(4096)} }

TargetModels == {"glm-4.7", "claude-3-5-sonnet"}

\* A request that sets nothing but max_tokens.
BaseRequest(max_tokens) ==
    AnthropicRequest("claude-3-5-sonnet", max_tokens, NoSystem,
                     None, None, None, None, None, None)

\* Requests that set the other parameters.
RichRequests ==
    { AnthropicRequest("claude-3-5-sonnet", 100, sys, temp, top_p, stop, stream, tools, tc) :
        sys \in Systems, temp \in {None, Some(7)}, top_p \in {None, Some(9)},
        stop \in {None, Some(<<"END">>)}, stream \in {None, Some(TRUE), Some(FALSE)},
        tools \in {None, Some(<<>>), Some(<<Tool1>>)}, tc \in ToolChoices }

UserText(text) == Message("user", TRUE, text, <<>>)
AssistantText(text) == Message("assistant", TRUE, text, <<>>)

\* anthropic_request.messages
Histories ==
    { <<UserText(<<"S", "a", "y", " ", "h", "i">>)>>,
      <<UserText(<<"l", "o", "n", "g", " ", "q", "u", "e", "s", "t", "i", "o", "n">>),
        AssistantText(<<"o", "k">>),
        UserText(<<"h", "i">>)>>,
      <<UserText(<<"r", "u", "n">>),
        Message("assistant", FALSE, <<>>, <<Txt, Use(ShortId)>>),
        Message("user", FALSE, <<>>, <<Res(ShortId)>>)>> }

\* Histories with a text and tool results in one turn and with a dropped prefill.
LongHistories ==
    Histories \cup
    { <<UserText(<<"r", "u", "n">>),
        Message("assistant", FALSE, <<>>, <<Use(ShortId), Use(LongId)>>),
        Message("user", FALSE, <<>>, <<Res(ShortId), Txt, Res(LongId)>>),
        AssistantText(<<"{">>)>>,
      <<UserText(<<"h", "i">>),
        Message("assistant", FALSE, <<>>, <<>>),
        UserText(<<"r", "u", "n">>),
        AssistantText(<<"o", "k">>)>> }

\* Requests that set nothing but the system prompt and the tools.
SystemRequests ==
    { AnthropicRequest("claude-3-5-sonnet", 100, sys, None, None, None, None, tools, None) :
        sys \in Systems, tools \in {None, Some(<<Tool1>>)} }

\* The arguments of a call of convert_request_to_openai.
ParamsInit ==
    /\ seen_ids = NewContext.seen_ids
    /\ id_mappings = NewContext.id_mappings
    /\ result_index = NewContext.result_index
    /\ messages = <<>>
    /\ openai_request = None
    /\ tool_format \in ToolFormats
    /\ \/ /\ anthropic_request \in { Some(BaseRequest(mt)) : mt \in MaxTokensInputs }
          /\ config \in Configs
          /\ request \in Histories
          /\ update_info = FALSE
       \/ /\ anthropic_request \in { Some(r) : r \in RichRequests }
          /\ config = NoConfig
          /\ request = <<UserText(<<"S", "a", "y", " ", "h", "i">>)>>
          /\ update_info \in BOOLEAN
       \/ /\ anthropic_request \in { Some(r) : r \in SystemRequests }
          /\ config = NoConfig
          /\ request \in LongHistories
          /\ update_info = FALSE

\* convert_request_to_openai(anthropic_request, target_model, tool_format, config)
ConvertRequest ==
    /\ IsSome(anthropic_request)
    /\ openai_request = None
    /\ \E target_model \in TargetModels :
         \E r \in convert_messages(
                    request,
                    [messages |-> system_messages(ValueOf(anthropic_request),
                                                  tool_format, update_info),
                     ctx |-> NewContext],
                    tool_format) :
            /\ messages' = r.messages
            /\ seen_ids' = r.ctx.seen_ids
            /\ id_mappings' = r.ctx.id_mappings
            /\ result_index' = r.ctx.result_index
            /\ openai_request' = Some(build_openai_request(
                                        ValueOf(anthropic_request), target_model,
                                        r.messages, tool_format, config))
    /\ UNCHANGED <<tool_format, request, anthropic_request, config, update_info>>
    /\ UNCHANGED <<streamVars, handlerVars, responseVars, toolVars, recorderVars>>

ParamsNext == ConvertRequest

InitParams == StreamInit /\ ParamsInit /\ HandlerIdle /\ ResponseIdle /\ ToolsIdle /\ RecorderIdle

\* One call of convert_request_to_openai.
SpecParams == InitParams /\ [][ParamsNext]_vars

----------------------------------------------------------------------------
\* utils/validation.py and the request body

\* A member of the body that should be a number or a boolean. kind: absent |
\* int | float | bool | str; num is its value in tenths (true is 1, so 10).
Field(kind, num) == [kind |-> kind, num |-> num]
Absent == Field("absent", 0)

\* body["model"]. kind: absent | str | other
ModelField(kind, name) == [kind |-> kind, name |-> name]

\* body["messages"]. kind: absent | list | other; items_valid: every item is a
\* message object that AnthropicMessage accepts.
MessagesField(kind, items, items_valid) ==
    [kind |-> kind, items |-> items, items_valid |-> items_valid]

\* What the client sent. parseable: the bytes are JSON; is_object: the JSON is
\* an object (a dict). tool_choice is absent unless set with EXCEPT.
Body(parseable, is_object, model, max_tokens, msgs, temperature, top_p, stream, tools) ==
    [parseable |-> parseable, is_object |-> is_object, model |-> model,
     max_tokens |-> max_tokens, messages |-> msgs, temperature |-> temperature,
     top_p |-> top_p, stream |-> stream, tools |-> tools, tool_choice |-> None]

\* isinstance(x, (int, float)): a bool is an int
IsNumber(f) == f.kind \in {"int", "float", "bool"}

ValidationError(field, message) == [field |-> field, message |-> message]

\* the check of temperature and of top_p
RangeErrors(f, name) ==
    IF f.kind # "absent" /\ (~IsNumber(f) \/ f.num < 0 \/ f.num > 10)
    THEN <<ValidationError(name, IF name = "temperature"
                                 THEN "temperature must be a number between 0 and 1"
                                 ELSE "top_p must be a number between 0 and 1")>>
    ELSE <<>>

\* validate_anthropic_request(body): the ValidationResult
validate_anthropic_request(b) ==
    LET errors ==
          IF ~b.is_object
          THEN <<ValidationError("body", "Request body must be an object")>>
          ELSE
            (IF b.model.kind # "str"
             THEN <<ValidationError("model", "model is required and must be a string")>>
             ELSE <<>>)
            \o (IF ~IsNumber(b.max_tokens)
                THEN <<ValidationError("max_tokens", "max_tokens is required and must be a number")>>
                ELSE IF b.max_tokens.num <= 0
                THEN <<ValidationError("max_tokens", "max_tokens must be a positive number")>>
                ELSE <<>>)
            \o (IF b.messages.kind # "list"
                THEN <<ValidationError("messages", "messages is required and must be an array")>>
                ELSE IF Len(b.messages.items) = 0
                THEN <<ValidationError("messages", "messages array cannot be empty")>>
                ELSE <<>>)
            \o RangeErrors(b.temperature, "temperature")
            \o RangeErrors(b.top_p, "top_p")
            \o (IF b.stream.kind \notin {"absent", "bool"}
                THEN <<ValidationError("stream", "stream must be a boolean")>>
                ELSE <<>>)
    IN [valid |-> errors = <<>>, errors |-> errors]

\* format_validation_errors: "; ".join(f"{err.field}: {err.message}")
format_validation_errors(errors) ==
    JoinWith(<<"; ">>,
             [i \in 1..Len(errors) |-> <<errors[i].field, ": ", errors[i].message>>])

\* AnthropicMessageRequest(**body) for a body that passed validation: whether
\* pydantic accepts it (max_tokens: int takes an integral float and a bool).
pydantic_accepts(b) ==
    /\ b.messages.items_valid
    /\ ~(b.max_tokens.kind = "float" /\ b.max_tokens.num % 10 # 0)
    /\ IsSome(b.tool_choice) =>
         /\ ValueOf(b.tool_choice).kind \in {"str", "dict"}
         /\ ValueOf(b.tool_choice).kind = "str" => ValueOf(b.tool_choice).type \in {"auto", "any"}
         /\ ValueOf(b.tool_choice).kind = "dict" =>
              ValueOf(b.tool_choice).type \in {"auto", "any", "tool"}

\* tool_choice of the parsed request: a dict becomes an AnthropicToolChoice.
parse_tool_choice(tool_choice) ==
    IF IsSome(tool_choice) /\ ValueOf(tool_choice).kind = "dict"
    THEN Some([ValueOf(tool_choice) EXCEPT !.kind = "model"])
    ELSE tool_choice

\* Optional[float] / Optional[bool] members of the parsed request
OptionalNumber(f) == IF f.kind = "absent" THEN None ELSE Some(f.num)
OptionalBool(f) == IF f.kind = "absent" THEN None ELSE Some(f.num # 0)

\* The AnthropicMessageRequest pydantic builds from an accepted body.
parse_request(b) ==
    AnthropicRequest(b.model.name, b.max_tokens.num \div 10, NoSystem,
                     OptionalNumber(b.temperature), OptionalNumber(b.top_p), None,
                     OptionalBool(b.stream), b.tools, parse_tool_choice(b.tool_choice))

----------------------------------------------------------------------------
\* The upstream completion and its conversion (handlers/messages.py, converters/response.py)

\* function.arguments of an upstream tool call. kind: object (JSON text of an
\* object) | json_other (JSON text of another value) | invalid (no JSON) |
\* none (arguments is None).
Arguments(kind, text) == [kind |-> kind, text |-> text]

UpstreamToolCall(id, name, arguments) == [id |-> id, name |-> name, arguments |-> arguments]

\* choices[i]: message.content, message.tool_calls and finish_reason are optional.
Choice(content, tcs, finish_reason) ==
    [content |-> content, tool_calls |-> tcs, finish_reason |-> finish_reason]

\* response.usage; cached: prompt_tokens_details.cached_tokens, None without details
UpstreamUsage(prompt_tokens, completion_tokens, cached) ==
    [prompt_tokens |-> prompt_tokens, completion_tokens |-> completion_tokens,
     cached |-> cached]

\* A ChatCompletion; usage is optional.
Completion(id, choices, u) == [id |-> id, choices |-> choices, usage |-> u]

\* The input of a tool_use block. kind: object | json_other (what json.loads
\* returned) | raw ({"raw": text}).
ToolInput(kind, text) == [kind |-> kind, text |-> text]

\* Blocks of the response content
ResponseText(text) == [type |-> "text", text |-> text, id |-> "", name |-> "",
                       input |-> ToolInput("none", "")]
ResponseToolUse(id, name, input) ==
    [type |-> "tool_use", text |-> <<>>, id |-> id, name |-> name, input |-> input]

\* The Anthropic message; cache_read is None when the key is not set.
AnthropicUsage(input_tokens, output_tokens, cache_read) ==
    [input_tokens |-> input_tokens, output_tokens |-> output_tokens,
     cache_read_input_tokens |-> cache_read]

AnthropicResponse(id, content, model, stop_reason, u) ==
    [id |-> id, type |-> "message", role |-> "assistant", content |-> content,
     model |-> model, stop_reason |-> stop_reason, usage |-> u]

\* What a conversion gives: a message, or an exception.
Returned(value) == [raised |-> FALSE, value |-> Some(value)]
Raised == [raised |-> TRUE, value |-> None]

\* handlers/messages.py: _map_finish_reason
handler_map_finish_reason(finish_reason) ==
    IF finish_reason = None \/ finish_reason = Some("") THEN None
    ELSE CASE ValueOf(finish_reason) = "stop" -> Some("end_turn")
           [] ValueOf(finish_reason) = "length" -> Some("max_tokens")
           [] ValueOf(finish_reason) = "tool_calls" -> Some("tool_use")
           [] ValueOf(finish_reason) = "content_filter" -> Some("end_turn")
           [] OTHER -> Some("end_turn")

\* converters/response.py: _map_finish_reason with "length" left out of its table
map_finish_reason_without_length(finish_reason) ==
    IF finish_reason = None \/ finish_reason = Some("") THEN None
    ELSE CASE ValueOf(finish_reason) = "stop" -> Some("end_turn")
           [] ValueOf(finish_reason) = "tool_calls" -> Some("tool_use")
           [] OTHER -> Some("end_turn")

\* converters/response.py: _map_finish_reason
map_finish_reason(finish_reason) ==
    IF finish_reason = None \/ finish_reason = Some("") THEN None
    ELSE CASE ValueOf(finish_reason) = "stop" -> Some("end_turn")
           [] ValueOf(finish_reason) = "length" -> Some("max_tokens")
           [] ValueOf(finish_reason) = "tool_calls" -> Some("tool_use")
           [] ValueOf(finish_reason) = "content_filter" -> Some("end_turn")
           [] OTHER -> Some("end_turn")

\* json.loads(arguments), or {"raw": arguments} on JSONDecodeError
LoadArguments(arguments) ==
    IF arguments.kind = "invalid" THEN ToolInput("raw", arguments.text)
    ELSE ToolInput(arguments.kind, arguments.text)

\* `if message.content:` / `if message.tool_calls:`
Truthy(o) == IsSome(o) /\ ValueOf(o) # <<>>

\* handlers/messages.py: _convert_openai_response_to_anthropic
handler_convert_response(resp, model_requested) ==
    IF resp.choices = <<>> THEN Raised
    ELSE
      LET message == resp.choices[1]
          tcs     == IF Truthy(message.tool_calls) THEN ValueOf(message.tool_calls) ELSE <<>>
          content ==
            (IF Truthy(message.content) THEN <<ResponseText(ValueOf(message.content))>>
             ELSE <<>>)
            \o [i \in 1..Len(tcs) |->
                  ResponseToolUse(tcs[i].id, tcs[i].name, LoadArguments(tcs[i].arguments))]
          u == IF IsSome(resp.usage)
               THEN AnthropicUsage(
                      ValueOf(resp.usage).prompt_tokens,
                      ValueOf(resp.usage).completion_tokens,
                      IF IsSome(ValueOf(resp.usage).cached) /\ ValueOf(ValueOf(resp.usage).cached) # 0
                      THEN ValueOf(resp.usage).cached ELSE None)
               ELSE AnthropicUsage(0, 0, None)
      IN IF \E i \in 1..Len(tcs) : tcs[i].arguments.kind = "none"
         THEN Raised
         ELSE Returned(AnthropicResponse(<<"msg_", resp.id>>, content,
                                         model_requested,
                                         handler_map_finish_reason(message.finish_reason), u))

\* converters/response.py: convert_response_to_anthropic; AnthropicToolUseBlock
\* takes a dict as input and response.usage is read without a default.
convert_response_to_anthropic(resp, model_requested) ==
    IF resp.choices = <<>> THEN Raised
    ELSE
      LET message == resp.choices[1]
          tcs     == IF Truthy(message.tool_calls) THEN ValueOf(message.tool_calls) ELSE <<>>
          content ==
            (IF Truthy(message.content) THEN <<ResponseText(ValueOf(message.content))>>
             ELSE <<>>)
            \o [i \in 1..Len(tcs) |->
                  ResponseToolUse(tcs[i].id, tcs[i].name, LoadArguments(tcs[i].arguments))]
      IN IF \/ \E i \in 1..Len(tcs) : tcs[i].arguments.kind \in {"none", "json_other"}
            \/ resp.usage = None
         THEN Raised
         ELSE Returned(AnthropicResponse(
                         <<"msg_", resp.id>>, content, model_requested,
                         map_finish_reason(message.finish_reason),
                         AnthropicUsage(ValueOf(resp.usage).prompt_tokens,
                                        ValueOf(resp.usage).completion_tokens,
                                        ValueOf(resp.usage).cached)))

----------------------------------------------------------------------------
\* handlers/messages.py: handle_messages_request

\* Model names are sequences of tokens, a tier's name being one token.
ModelSonnet35 == <<"claude-3-5-", "sonnet">>
ModelOpus4 == <<"claude-", "opus", "-4">>
ModelHaiku35Dated == <<"claude-3-5-", "haiku", "-20241022">>
ModelOpus3Dated == <<"claude-3-", "opus", "-20240229">>
ModelSonnet37 == <<"claude-3-7-", "sonnet", "-latest">>
ModelOther == <<"gpt-4o">>

RequestedModels ==
    {ModelSonnet35, ModelOpus4, ModelHaiku35Dated, ModelOpus3Dated, ModelSonnet37, ModelOther}

\* The keys of model_mapping, by the tier they map to.
OpusNames == { <<"claude-", "opus", "-4-20250514">>, <<"claude-", "opus", "-4">> }
SonnetNames ==
    { <<"claude-3-5-", "sonnet", "-20241022">>, <<"claude-3-5-", "sonnet">>,
      <<"claude-", "sonnet", "-4-20250514">>, <<"claude-", "sonnet", "-4">> }
HaikuNames ==
    { <<"claude-3-5-", "haiku", "-20241022">>, <<"claude-3-5-", "haiku">>,
      <<"claude-", "haiku", "-4-20250514">>, <<"claude-", "haiku", "-4">> }

\* model_mapping.get(requested_model, requested_model); a configured model is
\* a name of one token.
target_model_of(requested_model, models) ==
    IF requested_model \in OpusNames THEN <<models.opus>>
    ELSE IF requested_model \in SonnetNames THEN <<models.sonnet>>
    ELSE IF requested_model \in HaikuNames THEN <<models.haiku>>
    ELSE requested_model

\* _detect_tool_format
detect_tool_format(req, cfg) ==
    IF ~ToolsAreSet(req.tools) THEN "native" ELSE cfg.tool_format

\* convert_request_to_openai: the request dicts it may return
convert_request_to_openai(req, msgs, target_model, fmt, cfg, has_update) ==
    { build_openai_request(req, target_model, r.messages, fmt, cfg) :
        r \in convert_messages(msgs,
                               [messages |-> system_messages(req, fmt, has_update),
                                ctx |-> NewContext],
                               fmt) }

\* _map_error_type with the 403 entry of its table left out
map_error_type_without_403(status_code) ==
    CASE status_code = 400 -> "invalid_request_error"
      [] status_code = 401 -> "authentication_error"
      [] status_code = 404 -> "not_found_error"
      [] status_code = 429 -> "rate_limit_error"
      [] status_code = 500 -> "api_error"
      [] OTHER -> "api_error"

\* converters/response.py: _map_error_type
map_error_type(status_code) ==
    CASE status_code = 400 -> "invalid_request_error"
      [] status_code = 401 -> "authentication_error"
      [] status_code = 403 -> "permission_error"
      [] status_code = 404 -> "not_found_error"
      [] status_code = 429 -> "rate_limit_error"
      [] status_code = 500 -> "api_error"
      [] OTHER -> "api_error"

\* The content of a response: an error (create_error_response), a message, or
\* the arguments convert_stream_to_anthropic puts into message_start.
ErrorPayload(message, status_code) ==
    [kind |-> "error", error_type |-> map_error_type(status_code), message |-> message,
     status |-> status_code, value |-> None]
MessagePayload(m) ==
    [kind |-> "message", error_type |-> "", message |-> <<>>, status |-> 0, value |-> Some(m)]
StreamPayload(rid, model) ==
    [kind |-> "stream", error_type |-> "", message |-> <<>>, status |-> 0,
     value |-> Some([id |-> rid, model |-> model])]

\* JSONResponse / StreamingResponse; x_request_id: the X-Request-Id header, None
\* when the response has none.
HttpResponse(status_code, x_request_id, content) ==
    [status_code |-> status_code, x_request_id |-> x_request_id, content |-> content]

\* JSONResponse(status_code = ..., content = create_error_response(e, ...))
ErrorResponse(message, status_code) ==
    HttpResponse(status_code, None, ErrorPayload(message, status_code))

\* An exception; status_code and status are its attributes of these names, None
\* when it has no such attribute.
Exception(status_code, status) == [status_code |-> status_code, status |-> status]

\* getattr(e, "status_code", 500)
status_code_of(e) == IF IsSome(e.status_code) THEN ValueOf(e.status_code) ELSE 500

\* utils/error_log.py
SKIP_STATUS_CODES == {401, 402, 404, 429}

\* record_error without the check against SKIP_STATUS_CODES
record_error_unfiltered(records, e, rid, model_name, streaming) ==
    Append(records, [request_id |-> rid, model_name |-> model_name,
                     streaming |-> streaming,
                     status |-> IF IsSome(e.status_code) THEN e.status_code ELSE e.status])

\* utils/error_log.py: record_error; records is the log before, the result the
\* log after.
record_error(records, e, rid, model_name, streaming) ==
    LET status_code == IF IsSome(e.status_code) THEN e.status_code
                       ELSE IF IsSome(e.status) THEN e.status
                       ELSE None
    IN IF IsSome(status_code) /\ ValueOf(status_code) \in SKIP_STATUS_CODES
       THEN records
       ELSE Append(records, [request_id |-> rid, model_name |-> model_name,
                             streaming |-> streaming, status |-> status_code])

\* utils/token_usage.py: record_usage; cached_input_tokens is written only when
\* it is truthy.
record_usage(records, model_name, model, u, streaming) ==
    Append(records, [model_name |-> model_name, model |-> model,
                     input_tokens |-> u.input_tokens, output_tokens |-> u.output_tokens,
                     cached_input_tokens |->
                         IF IsSome(u.cache_read_input_tokens)
                            /\ ValueOf(u.cache_read_input_tokens) # 0
                         THEN u.cache_read_input_tokens ELSE None,
                     streaming |-> streaming])

\* secrets.token_urlsafe: the ids _generate_request_id may return
RequestIds == {"msg_A", "msg_B"}

\* The arguments of client.chat.completions.create: the request dict without
\* "stream" (and "stream_options" when not streaming), and stream = True or unset.
UpstreamCall(openai_req, is_streaming) ==
    [request |-> IF is_streaming THEN openai_req
                 ELSE [openai_req EXCEPT !.stream_options = None],
     stream |-> is_streaming]

\* Request bodies

ModelFields ==
    { ModelField("absent", <<>>), ModelField("other", <<>>), ModelField("str", ModelSonnet35) }

MaxTokensFields ==
    { Absent, Field("str", 0), Field("bool", 10), Field("bool", 0),
      Field("int", 1000), Field("int", 10), Field("int", 0), Field("int", -10),
      Field("float", 15) }

OneUserMessage == <<UserText(<<"S", "a", "y", " ", "h", "i">>)>>

MessagesFields ==
    { MessagesField("absent", <<>>, TRUE), MessagesField("other", <<>>, TRUE),
      MessagesField("list", <<>>, TRUE), MessagesField("list", OneUserMessage, TRUE),
      MessagesField("list", OneUserMessage, FALSE) }

TemperatureFields ==
    { Absent, Field("float", 7), Field("float", 15), Field("int", -10),
      Field("str", 0), Field("bool", 10) }

TopPFields == { Absent, Field("float", 9), Field("float", 11) }

StreamFields == { Absent, Field("bool", 10), Field("bool", 0), Field("str", 0) }

\* Bodies that are JSON objects, over every combination of the checked members.
CheckedBodies ==
    { Body(TRUE, TRUE, m, mt, msgs, t, p, st, None) :
        m \in ModelFields, mt \in MaxTokensFields, msgs \in MessagesFields,
        t \in TemperatureFields, p \in TopPFields, st \in StreamFields }

\* Valid bodies over the model names, with and without tools.
ValidBodies ==
    { Body(TRUE, TRUE, ModelField("str", m), Field("int", 1000),
           MessagesField("list", OneUserMessage, TRUE), Absent, Absent, st, tools) :
        m \in RequestedModels, st \in {Absent, Field("bool", 10), Field("bool", 0)},
        tools \in {None, Some(<<Tool1>>)} }

\* A history with a tool use and its result.
ToolHistory ==
    <<UserText(<<"r", "u", "n">>),
      Message("assistant", FALSE, <<>>, <<Txt, Use(ShortId)>>),
      Message("user", FALSE, <<>>, <<Res(ShortId)>>)>>

\* Valid bodies with that history, with and without tools and tool_choice.
ToolHistoryBodies ==
    { [Body(TRUE, TRUE, ModelField("str", ModelSonnet35), Field("int", 1000),
            MessagesField("list", ToolHistory, TRUE), Absent, Absent, st, tools)
         EXCEPT !.tool_choice = tc] :
        st \in {Absent, Field("bool", 10)},
        tools \in {None, Some(<<>>), Some(<<Tool1>>)},
        tc \in {None, Some(ToolChoice("str", "any", None)),
                Some(ToolChoice("dict", "any", None)),
                Some(ToolChoice("dict", "tool", Some("f")))} }

\* A body that is no JSON, and one that is JSON but no object.
NoJsonBody ==
    Body(FALSE, FALSE, ModelField("absent", <<>>), Absent,
         MessagesField("absent", <<>>, TRUE), Absent, Absent, Absent, None)
NoObjectBody ==
    Body(TRUE, FALSE, ModelField("absent", <<>>), Absent,
         MessagesField("absent", <<>>, TRUE), Absent, Absent, Absent, None)

\* Upstream completions

UsageA == Some(UpstreamUsage(12, 3, None))

ArgsObject == Arguments("object", "{\"path\": \"a\"}")
ArgsOther == Arguments("json_other", "[1]")
ArgsInvalid == Arguments("invalid", "{path:")
ArgsEmpty == Arguments("invalid", "")
ArgsNone == Arguments("none", "")

FinishReasons ==
    { None, Some(""), Some("stop"), Some("length"), Some("tool_calls"),
      Some("content_filter"), Some("function_call") }

ToolCallLists ==
    { None, Some(<<>>),
      Some(<<UpstreamToolCall("call_1", "f", ArgsObject)>>),
      Some(<<UpstreamToolCall("call_1", "f", ArgsInvalid)>>),
      Some(<<UpstreamToolCall("call_1", "f", ArgsEmpty)>>),
      Some(<<UpstreamToolCall("call_1", "f", ArgsOther)>>),
      Some(<<UpstreamToolCall("call_1", "f", ArgsNone)>>),
      Some(<<UpstreamToolCall("call_1", "f", ArgsObject),
             UpstreamToolCall("call_2", "g", ArgsInvalid)>>) }

Contents == { None, Some(<<>>), Some(<<"H", "i">>) }

Completions ==
    { Completion("x1", <<Choice(c, tcs, fr)>>, UsageA) :
        c \in Contents, tcs \in ToolCallLists, fr \in {Some("stop"), Some("tool_calls")} }
    \cup { Completion("x1", <<Choice(Some(<<"H", "i">>), None, fr)>>, u) :
             fr \in FinishReasons,
             u \in { UsageA, None, Some(UpstreamUsage(12, 3, Some(0))),
                     Some(UpstreamUsage(12, 3, Some(5))) } }
    \cup { Completion("x1", <<>>, UsageA) }

\* What the upstream call may raise: errors of the client with a status_code,
\* errors without one, and an error that only has a status attribute.
UpstreamErrors ==
    { Exception(Some(c), None) : c \in {400, 401, 402, 403, 404, 429, 500, 503} }
    \cup { Exception(None, None), Exception(None, Some(404)) }

\* A request has arrived; config is what get_config() returns.
HandlerInit ==
    /\ hpc = "received"
    /\ request_id = None
    /\ upstream_request = None
    /\ upstream_response = None
    /\ response = None
    /\ upstream_error = None
    /\ usage_records = <<>>
    /\ error_records = <<>>
    /\ anthropic_request = None
    /\ update_info = FALSE
    /\ openai_request = None
    /\ \/ /\ body \in { Some(b) : b \in CheckedBodies \cup {NoJsonBody, NoObjectBody} }
          /\ config = AdapterConfig("custom", None)
       \/ /\ body \in { Some(b) : b \in ValidBodies \cup ToolHistoryBodies }
          /\ config \in { [AdapterConfig("custom", None) EXCEPT !.tool_format = f] :
                            f \in ToolFormats }

\* The handler returns resp.
Respond(resp) ==
    /\ response' = Some(resp)
    /\ hpc' = "responded"

\* handle_messages_request up to its first await of the upstream call, or to
\* the response it returns before.
HandleRequest ==
    /\ hpc = "received"
    /\ \E rid \in RequestIds :
         /\ request_id' = Some(rid)
         /\ LET b == ValueOf(body)
                v == validate_anthropic_request(b)
            IN IF ~b.parseable
               THEN Respond(ErrorResponse(<<"JSONDecodeError">>, 500))
                    /\ UNCHANGED upstream_request
               ELSE IF ~v.valid
               THEN Respond(ErrorResponse(format_validation_errors(v.errors), 400))
                    /\ UNCHANGED upstream_request
               ELSE IF ~pydantic_accepts(b)
               THEN Respond(ErrorResponse(<<"ValidationError">>, 400))
                    /\ UNCHANGED upstream_request
               ELSE
                 LET req == parse_request(b)
                     fmt == detect_tool_format(req, config)
                     target_model == target_model_of(req.model, config.models)
                 IN \E oreq \in convert_request_to_openai(req, b.messages.items, target_model,
                                                         fmt, config, update_info) :
                       /\ upstream_request' = Some(UpstreamCall(oreq, oreq.stream))
                       /\ hpc' = "awaiting"
                       /\ UNCHANGED response
    /\ UNCHANGED <<body, upstream_response, upstream_error, usage_records, error_records>>
    /\ UNCHANGED <<streamVars, requestVars, paramVars, responseVars, toolVars, recorderVars>>

\* client.chat.completions.create returns a completion (not streaming).
UpstreamCompletes ==
    /\ hpc = "awaiting"
    /\ ~ValueOf(upstream_request).stream
    /\ \E c \in Completions :
         LET requested_model == ValueOf(body).model.name
             r == handler_convert_response(c, requested_model)
             e == Exception(None, None)
         IN
         /\ upstream_response' = Some(c)
         /\ IF r.raised
            THEN /\ error_records' = record_error(error_records, e, ValueOf(request_id),
                                                  requested_model, FALSE)
                 /\ Respond(ErrorResponse(<<"Exception">>, status_code_of(e)))
                 /\ UNCHANGED usage_records
            ELSE /\ usage_records' = record_usage(usage_records, requested_model,
                                                  ValueOf(upstream_request).request.model,
                                                  ValueOf(r.value).usage, FALSE)
                 /\ Respond(HttpResponse(200, request_id, MessagePayload(ValueOf(r.value))))
                 /\ UNCHANGED error_records
    /\ UNCHANGED <<body, request_id, upstream_request, upstream_error>>
    /\ UNCHANGED <<streamVars, requestVars, paramVars, responseVars, toolVars, recorderVars>>

\* client.chat.completions.create returns a stream: the StreamingResponse.
StreamOpens ==
    /\ hpc = "awaiting"
    /\ ValueOf(upstream_request).stream
    /\ Respond(HttpResponse(200, request_id,
                            StreamPayload(ValueOf(request_id), ValueOf(body).model.name)))
    /\ UNCHANGED <<body, request_id, upstream_request, upstream_response>>
    /\ UNCHANGED <<upstream_error, usage_records, error_records>>
    /\ UNCHANGED <<streamVars, requestVars, paramVars, responseVars, toolVars, recorderVars>>

\* client.chat.completions.create raises.
UpstreamFails ==
    /\ hpc = "awaiting"
    /\ \E e \in UpstreamErrors :
         /\ upstream_error' = Some(e)
         /\ error_records' = record_error(error_records, e, ValueOf(request_id),
                                          ValueOf(body).model.name,
                                          ValueOf(upstream_request).stream)
         /\ Respond(ErrorResponse(<<"upstream error">>, status_code_of(e)))
    /\ UNCHANGED <<body, request_id, upstream_request, upstream_response, usage_records>>
    /\ UNCHANGED <<streamVars, requestVars, paramVars, responseVars, toolVars, recorderVars>>

HandlerNext == HandleRequest \/ UpstreamCompletes \/ StreamOpens \/ UpstreamFails

InitHandler ==
    /\ StreamInit
    /\ RequestIdle
    /\ HandlerInit
    /\ ResponseIdle
    /\ ToolsIdle
    /\ RecorderIdle

\* One POST /v1/messages request.
SpecHandler == InitHandler /\ [][HandlerNext]_vars

----------------------------------------------------------------------------
\* The two response converters on their own

\* A completion to convert and the model name to echo.
ResponseInit ==
    /\ openai_response \in { Some(c) : c \in Completions }
    /\ original_model_requested \in { Some(ModelSonnet35), Some(ModelOther) }
    /\ converted = None
    /\ handler_converted = None

\* converters/response.py: convert_response_to_anthropic(openai_response, model)
ConvertResponse ==
    /\ IsSome(openai_response)
    /\ converted = None
    /\ converted' = Some(convert_response_to_anthropic(ValueOf(openai_response),
                                                       ValueOf(original_model_requested)))
    /\ UNCHANGED <<openai_response, original_model_requested, handler_converted>>
    /\ UNCHANGED <<streamVars, requestVars, paramVars, handlerVars, toolVars, recorderVars>>

\* handlers/messages.py: _convert_openai_response_to_anthropic(openai_response, model)
HandlerConvertResponse ==
    /\ IsSome(openai_response)
    /\ handler_converted = None
    /\ handler_converted' = Some(handler_convert_response(ValueOf(openai_response),
                                                          ValueOf(original_model_requested)))
    /\ UNCHANGED <<openai_response, original_model_requested, converted>>
    /\ UNCHANGED <<streamVars, requestVars, paramVars, handlerVars, toolVars, recorderVars>>

ResponseNext == ConvertResponse \/ HandlerConvertResponse

InitResponse ==
    /\ StreamInit
    /\ RequestIdle
    /\ ParamsIdle
    /\ HandlerIdle
    /\ ResponseInit
    /\ ToolsIdle
    /\ RecorderIdle

\* The conversion of one upstream completion by either converter.
SpecResponse == InitResponse /\ [][ResponseNext]_vars

----------------------------------------------------------------------------
\* _convert_message on one message

\* Texts at and around the prefill rules.
PrefillTexts ==
    { <<>>, <<"o", "k">>, <<" ", "o", "k", "\n">>, <<"a", "b", "c">>,
      <<" ", "a", "b", "c", " ">>, <<"{">>, <<"[">>, <<"BQ", "BQ", "BQ">>,
      <<"{", "DQ">>, <<"[", "{">>, <<"<">>, <<" ", "<", "\n">>,
      ToolCodeOpen, ToolCodeOpen \o <<">">>,
      ToolCodeOpen \o <<" ", "n", "=", "f", ">", "{">>,
      ToolCodeOpen \o <<">", "{", "}">> \o ToolCodeClose,
      <<"x">> \o ToolCodeOpen,
      <<"h", "e", "l", "l", "o">> }

\* One message of either role, with string or block content.
SingleMessages ==
    { AssistantText(t) : t \in PrefillTexts }
    \cup { UserText(t) : t \in {<<>>, <<"h", "i">>} }
    \cup { Message("assistant", FALSE, <<>>, <<TextBlock(t)>>) : t \in PrefillTexts }
    \cup { Message("assistant", FALSE, <<>>, <<TextBlock(t), Use(ShortId)>>) : t \in PrefillTexts }
    \cup { Message("assistant", FALSE, <<>>, bs) :
             bs \in { <<>>, <<TextBlock(<<>>), TextBlock(<<>>)>>,
                      <<TextBlock(<<"o">>), TextBlock(<<"k", "!">>)>>,
                      <<Use(ShortId)>>, <<Use(LongId), Use(ShortId)>> } }
    \cup { Message("user", FALSE, <<>>, bs) :
             bs \in { <<>>, <<TextBlock(<<>>)>>, <<Txt>>, <<Res(ShortId)>>,
                      <<Txt, Res(ShortId)>>, <<Res(ShortId), Res(LongId)>>,
                      <<TextBlock(<<"o">>), Res(ShortId), TextBlock(<<"k", "!">>)>> } }

\* _convert_message(msg, ctx, tool_format) with a new context
ConvertSingleMessage ==
    /\ request = <<>>
    /\ \E msg \in SingleMessages :
         \E r \in convert_message(msg, Context, tool_format) :
            /\ messages' = r.result
            /\ seen_ids' = r.ctx.seen_ids
            /\ id_mappings' = r.ctx.id_mappings
            /\ result_index' = r.ctx.result_index
            /\ request' = <<msg>>
    /\ UNCHANGED tool_format
    /\ UNCHANGED <<streamVars, paramVars, handlerVars, responseVars, toolVars, recorderVars>>

MessageNext == ConvertSingleMessage

InitMessage == StreamInit /\ RequestInit /\ ParamsIdle /\ HandlerIdle /\ ResponseIdle /\ ToolsIdle /\ RecorderIdle

\* One call of _convert_message.
SpecMessage == InitMessage /\ [][MessageNext]_vars

----------------------------------------------------------------------------
\* The two tool converters on their own, and through convert_request_to_openai

\* Number of tool definitions of a request.
MaxTools == 3

Tool2 == ToolDefinition("g", "", "{}")

ToolLists == UNION { [1..n -> {Tool1, Tool2}] : n \in 0..MaxTools }

\* Arguments of convert_tool_choice_to_openai: strings, dicts, parsed
\* AnthropicToolChoice objects and a value that is none of these.
ToolChoiceInputs ==
    { ToolChoice("str", t, None) : t \in {"auto", "any", "none", "tool", ""} }
    \cup { ToolChoice("dict", t, n) :
             t \in {"auto", "any", "tool", "none", "function", ""}, n \in {None, Some("f")} }
    \cup { ToolChoice("model", t, n) : t \in {"auto", "any", "tool"}, n \in {None, Some("f")} }
    \cup { ToolChoice("other", "", None) }

ToolsInit ==
    /\ given_tools \in ToolLists
    /\ given_tool_choice \in { Some(tc) : tc \in ToolChoiceInputs }
    /\ openai_tools = None
    /\ openai_tool_choice = None
    /\ tools_request = None
    /\ xml_instructions = None

\* converters/tools.py: convert_tools_to_openai(tools)
ConvertTools ==
    /\ IsSome(given_tool_choice)
    /\ openai_tools = None
    /\ openai_tools' = Some(convert_tools_to_openai(given_tools))
    /\ UNCHANGED <<given_tools, given_tool_choice, openai_tool_choice, tools_request, xml_instructions>>
    /\ UNCHANGED <<streamVars, requestVars, paramVars, handlerVars, responseVars, recorderVars>>

\* converters/tools.py: convert_tool_choice_to_openai(tool_choice)
ConvertToolChoice ==
    /\ IsSome(given_tool_choice)
    /\ openai_tool_choice = None
    /\ openai_tool_choice' = Some(convert_tool_choice_to_openai(ValueOf(given_tool_choice)))
    /\ UNCHANGED <<given_tools, given_tool_choice, openai_tools, tools_request, xml_instructions>>
    /\ UNCHANGED <<streamVars, requestVars, paramVars, handlerVars, responseVars, recorderVars>>

\* convert_request_to_openai of a request with these tools and this tool_choice
ConvertRequestWithTools ==
    /\ IsSome(given_tool_choice)
    /\ tools_request = None
    /\ \E fmt \in ToolFormats, sys \in {NoSystem, StrContent(<<"Be brief.">>)} :
         LET req == [BaseRequest(100) EXCEPT !.system = sys,
                                             !.tools = Some(given_tools),
                                             !.tool_choice = given_tool_choice]
         IN \E oreq \in convert_request_to_openai(req, OneUserMessage, "glm-4.7", fmt,
                                                 NoConfig, FALSE) :
               tools_request' = Some([tool_format |-> fmt, system |-> sys, request |-> oreq])
    /\ UNCHANGED <<given_tools, given_tool_choice, openai_tools, openai_tool_choice, xml_instructions>>
    /\ UNCHANGED <<streamVars, requestVars, paramVars, handlerVars, responseVars, recorderVars>>

\* converters/xml_prompt.py: generate_xml_tool_instructions(tools)
GenerateXmlInstructions ==
    /\ IsSome(given_tool_choice)
    /\ xml_instructions = None
    /\ xml_instructions' = Some(generate_xml_tool_instructions(given_tools))
    /\ UNCHANGED <<given_tools, given_tool_choice, openai_tools, openai_tool_choice, tools_request>>
    /\ UNCHANGED <<streamVars, requestVars, paramVars, handlerVars, responseVars, recorderVars>>

ToolsNext ==
    ConvertTools \/ ConvertToolChoice \/ ConvertRequestWithTools \/ GenerateXmlInstructions

InitTools ==
    /\ StreamInit
    /\ RequestIdle
    /\ ParamsIdle
    /\ HandlerIdle
    /\ ResponseIdle
    /\ ToolsInit
    /\ RecorderIdle

\* The conversion of one tools list and one tool_choice.
SpecTools == InitTools /\ [][ToolsNext]_vars

----------------------------------------------------------------------------
\* utils/file_storage.py, utils/token_usage.py, utils/error_log.py: the records
\* written by requests that finish at the same time

\* Number of requests that finish at the same time.
MaxRequests == 2

Workers == 1..MaxRequests

\* How a request ended: a completion with its usage, or an exception.
SuccessOutcome(u) == [kind |-> "success", usage |-> u, e |-> Exception(None, None)]
ErrorOutcome(e) ==
    [kind |-> "error",
     usage |-> [input_tokens |-> 0, output_tokens |-> 0, cache_read_input_tokens |-> None],
     e |-> e]

Outcomes ==
    { SuccessOutcome([input_tokens |-> 3, output_tokens |-> 1,
                      cache_read_input_tokens |-> None]) }
    \cup { ErrorOutcome(e) :
             e \in { Exception(Some(500), None), Exception(Some(429), None),
                     Exception(None, None) } }

\* The JSONResponse the handler returns for an outcome (messages.py:336-339 and
\* 345-350, 354-357): status 200, or getattr(e, "status_code", 500).
response_for(outcome) ==
    IF outcome.kind = "success"
    THEN [status_code |-> 200, kind |-> "message"]
    ELSE [status_code |-> status_code_of(outcome.e), kind |-> "error"]

\* "timestamp": datetime.now().isoformat(), one per request, with the record.
Stamped(p, record) == [timestamp |-> p, record |-> record]

\* The pieces of a file: the JSON text of a record, and "\n".
Json(record) == [newline |-> FALSE, json |-> Some(record)]
Newline == [newline |-> TRUE, json |-> None]

\* f.write's argument: json.dumps(record, ensure_ascii = False) + "\n"
json_line(record) == <<Json(record), Newline>>

\* The record and its newline handed to the file by two writes.
write_calls_record_then_newline(text) == [i \in 1..Len(text) |-> <<text[i]>>]

\* The writes the file receives for one f.write(text) and the close of the
\* `with` block: the whole line at once, appended at the end (mode "a").
write_calls(text) == <<text>>

\* What may fail in append_json_line: mkdir, open, json.dumps, the write.
FailuresBeforeWrite == {"mkdir", "open", "dumps"}

\* The exception of a failed step leaving append_json_line.
append_failure_raised(failure) == "raised"

\* except Exception: pass
append_failure(failure) == "swallowed"

IdleWorker ==
    [pc |-> "idle", outcome |-> None, planned |-> None, pending |-> <<>>,
     target |-> "usage", failed |-> FALSE, written |-> FALSE, raised |-> FALSE,
     returned |-> None]

RecorderInit ==
    /\ workers = [p \in Workers |-> IdleWorker]
    /\ files = [usage |-> <<>>, error |-> <<>>]

\* The worker after a step of append_json_line failed: the exception is
\* swallowed; were it raised, the `except` of the non-streaming branch would call
\* record_error for it (messages.py:341-343) and, raised from there, the outer
\* `except` would answer 500 (messages.py:352-357).
AfterFailure(w, failure) ==
    IF append_failure(failure) = "swallowed"
    THEN [w EXCEPT !.pc = "respond", !.pending = <<>>, !.failed = TRUE]
    ELSE IF ValueOf(w.outcome).kind = "success"
    THEN [w EXCEPT !.pc = "record", !.pending = <<>>, !.failed = TRUE, !.raised = TRUE,
                   !.outcome = Some(ErrorOutcome(Exception(None, None)))]
    ELSE [w EXCEPT !.pc = "respond", !.pending = <<>>, !.failed = TRUE, !.raised = TRUE,
                   !.outcome = Some(ErrorOutcome(Exception(None, None)))]

\* client.chat.completions.create returns or raises for request p.
UpstreamReturns(p) ==
    /\ workers[p].pc = "idle"
    /\ \E o \in Outcomes :
         workers' = [workers EXCEPT ![p] =
                        [@ EXCEPT !.pc = "record", !.outcome = Some(o), !.planned = Some(o)]]
    /\ UNCHANGED files
    /\ UNCHANGED <<streamVars, requestVars, paramVars, handlerVars, responseVars, toolVars>>

\* record_usage or record_error is called: the record is built and
\* append_json_line starts (mkdir, open, json.dumps), unless the status is skipped.
RecordCalled(p) ==
    /\ workers[p].pc = "record"
    /\ LET w == workers[p]
           o == ValueOf(w.outcome)
           recs == IF o.kind = "success"
                   THEN record_usage(<<>>, "claude-3-5-sonnet", "mid-model", o.usage, FALSE)
                   ELSE record_error(<<>>, o.e, p, "claude-3-5-sonnet", FALSE)
       IN IF recs = <<>>
          THEN workers' = [workers EXCEPT ![p] = [w EXCEPT !.pc = "respond"]]
          ELSE \/ workers' = [workers EXCEPT ![p] =
                     [w EXCEPT !.pc = "writing",
                               !.target = IF o.kind = "success" THEN "usage" ELSE "error",
                               !.pending = write_calls(json_line(Stamped(p, recs[1])))]]
               \/ \E failure \in FailuresBeforeWrite :
                     workers' = [workers EXCEPT ![p] = AfterFailure(w, failure)]
    /\ UNCHANGED files
    /\ UNCHANGED <<streamVars, requestVars, paramVars, handlerVars, responseVars, toolVars>>

\* One write reaches the file of request p and appends at its end, or fails.
WriteCall(p) ==
    /\ workers[p].pc = "writing"
    /\ LET w == workers[p] IN
       \/ /\ files' = [files EXCEPT ![w.target] = @ \o Head(w.pending)]
          /\ workers' = [workers EXCEPT ![p] =
                [w EXCEPT !.pending = Tail(w.pending),
                          !.written = Tail(w.pending) = <<>>,
                          !.pc = IF Tail(w.pending) = <<>> THEN "respond" ELSE "writing"]]
       \/ /\ workers' = [workers EXCEPT ![p] = AfterFailure(w, "write")]
          /\ UNCHANGED files
    /\ UNCHANGED <<streamVars, requestVars, paramVars, handlerVars, responseVars, toolVars>>

\* The handler returns its JSONResponse for request p.
Responds(p) ==
    /\ workers[p].pc = "respond"
    /\ workers' = [workers EXCEPT ![p] =
          [@ EXCEPT !.pc = "done",
                    !.returned = Some(response_for(ValueOf(workers[p].outcome)))]]
    /\ UNCHANGED files
    /\ UNCHANGED <<streamVars, requestVars, paramVars, handlerVars, responseVars, toolVars>>

RecorderNext ==
    \E p \in Workers :
        UpstreamReturns(p) \/ RecordCalled(p) \/ WriteCall(p) \/ Responds(p)

InitRecorder ==
    /\ StreamInit
    /\ RequestIdle
    /\ ParamsIdle
    /\ HandlerIdle
    /\ ResponseIdle
    /\ ToolsIdle
    /\ RecorderInit

\* Requests that finish at the same time and write their records.
SpecRecorder == InitRecorder /\ [][RecorderNext]_vars

----------------------------------------------------------------------------
\* Properties of the emitted event sequence

EventPositions(type) == { i \in DOMAIN events : events[i].type = type }

CountEvents(type) == Cardinality(EventPositions(type))

CountFor(type, index) ==
    Cardinality({ i \in EventPositions(type) : events[i].index = index })

\* The recogniser of
\*   message_start (content_block_start content_block_delta* content_block_stop)*
\*   message_delta? message_stop
\* where the deltas and the stop of a block carry the index of its start.
GrammarStep(g, e) ==
    CASE g.q = "S0" /\ e.type = "message_start" -> [q |-> "between", open |-> NoIndex]
      [] g.q = "between" /\ e.type = "content_block_start" -> [q |-> "inblock", open |-> e.index]
      [] g.q = "between" /\ e.type = "message_delta" -> [q |-> "closing", open |-> NoIndex]
      [] g.q = "between" /\ e.type = "message_stop" -> [q |-> "end", open |-> NoIndex]
      [] g.q = "inblock" /\ e.type = "content_block_delta" /\ e.index = g.open -> g
      [] g.q = "inblock" /\ e.type = "content_block_stop" /\ e.index = g.open ->
            [q |-> "between", open |-> NoIndex]
      [] g.q = "closing" /\ e.type = "message_stop" -> [q |-> "end", open |-> NoIndex]
      [] OTHER -> [q |-> "reject", open |-> NoIndex]

RECURSIVE GrammarState(_)
GrammarState(n) ==
    IF n = 0 THEN [q |-> "S0", open |-> NoIndex]
    ELSE GrammarStep(GrammarState(n - 1), events[n])

\* C1: the complete sequence of emitted events of every stream matches the grammar
\* message_start (content_block_start content_block_delta* content_block_stop)*
\* message_delta? message_stop: a block is stopped before the next one is started.
StreamMatchesGrammar ==
    pc = "done" => GrammarState(Len(events)).q = "end"

\* C2: in every completed stream each opened block has exactly one
\* content_block_start and exactly one content_block_stop for its index.
EveryBlockStartedAndStoppedOnce ==
    pc = "done" =>
        \A b \in 1..Len(content_blocks) :
            /\ CountFor("content_block_start", b - 1) = 1
            /\ CountFor("content_block_stop", b - 1) = 1

\* C3: once content_block_stop was emitted for index i, no later
\* content_block_delta carries index i.
NoDeltaAfterStop ==
    \A p \in EventPositions("content_block_stop") :
        \A q \in EventPositions("content_block_delta") :
            p < q => events[q].index # events[p].index

\* C4: for every finite sequence of upstream lines, with or without [DONE], the
\* emitted stream has exactly one message_start, its first event, and exactly one
\* message_stop, its last event; nothing is emitted after message_stop.
OneMessageStartOneMessageStop ==
    /\ pc = "start" => events = <<>>
    /\ pc # "start" =>
          /\ events[1].type = "message_start"
          /\ CountEvents("message_start") = 1
    /\ pc = "reading" => CountEvents("message_stop") = 0
    /\ pc = "done" =>
          /\ events[Len(events)].type = "message_stop"
          /\ CountEvents("message_stop") = 1

\* A stream that ended without [DONE] after it opened blocks.
EndedWithoutDoneWitness ==
    /\ pc = "done"
    /\ upstream = "exhausted"
    /\ Len(content_blocks) >= 2
    /\ usage.set

EndsWithErrorTail ==
    LET n == Len(events) IN
    /\ n >= 5
    /\ events[n].type = "message_stop"
    /\ events[n - 1].type = "message_delta" /\ events[n - 1].stop_reason = "error"
    /\ events[n - 2].type = "content_block_stop"
    /\ events[n - 3].type = "content_block_start"
    /\ events[n - 3].ctype = "text"
    /\ events[n - 3].text # <<>>

\* C5: when the upstream read fails after the SSE response has begun, with any
\* exception type, no exception leaves the stream writer: the stream ends with an
\* error text block, message_delta(stop_reason = error) and message_stop.
UpstreamFailureEndsStreamCleanly ==
    upstream \in {"api_error", "other_error"} =>
        /\ pc = "done"
        /\ EndsWithErrorTail

ApiErrorChunkState ==
    /\ (line.kind = "data" /\ line.err \in {"obj_msg", "obj_type", "obj_both"}) =>
          LET k == Len(prev.content_blocks)
              m == IF line.err = "obj_type" THEN "Unknown error" ELSE "m"
              u == IF prev.usage.set THEN prev.usage ELSE ZeroUsage
          IN /\ pc = "done"
             /\ events = prev.events \o
                  << BlockStart(k, "text", <<"Error: ", m>>, "", ""),
                     BlockStop(k),
                     MessageDelta("error", u),
                     MessageStop >>
    /\ (line.kind = "data" /\ line.err \in {"scalar", "obj_other"}) =>
          LET r == process_chunk([line EXCEPT !.err = "absent"],
                                 prev.content_blocks, prev.tool_calls, prev.usage)
          IN /\ pc = "reading"
             /\ ~r.raised
             /\ events = prev.events \o r.out
             /\ content_blocks = r.content_blocks
             /\ tool_calls = r.tool_calls
             /\ usage = r.usage

\* C7: a chunk whose top-level error is an object with message or type emits
\* exactly content_block_start (new text block, index = blocks opened so far,
\* text "Error: <message>"), content_block_stop, message_delta(stop_reason = error,
\* last observed usage or zeros), message_stop, and no later line produces an
\* event; any other error value leaves the chunk a normal data chunk.
ApiErrorChunkTerminatesStream ==
    /\ []ApiErrorChunkState
    /\ [][pc = "done" => (events' = events /\ pc' = "done")]_vars

\* An API-error chunk read after blocks were opened and usage was observed.
ApiErrorAfterUsageWitness ==
    /\ line.kind = "data"
    /\ line.err = "obj_type"
    /\ nread >= 3
    /\ prev.usage.set
    /\ Len(prev.content_blocks) >= 2

----------------------------------------------------------------------------
\* Properties of the translated messages (native mode)

RECURSIVE BlockIds(_, _)
BlockIds(blocks, type) ==
    IF blocks = <<>> THEN <<>>
    ELSE (IF Head(blocks).type = type THEN <<Head(blocks).id>> ELSE <<>>)
            \o BlockIds(Tail(blocks), type)

\* The ids of the ToolUseBlocks of an input message, in order.
UseIdsOf(msg) ==
    IF msg.role = "assistant" /\ ~msg.is_str THEN BlockIds(msg.blocks, "tool_use") ELSE <<>>

\* The tool_use_ids of the ToolResultBlocks of an input message, in order.
ResultIdsOf(msg) ==
    IF msg.role = "user" /\ ~msg.is_str THEN BlockIds(msg.blocks, "tool_result") ELSE <<>>

InputUseIds == Concat([m \in 1..Len(request) |-> UseIdsOf(request[m])])

InputResultIds == Concat([m \in 1..Len(request) |-> ResultIdsOf(request[m])])

\* The ids of all tool_calls entries of the translated assistant messages, in order.
OutputToolCallIds ==
    Concat([m \in 1..Len(messages) |->
              IF messages[m].role = "assistant"
              THEN [i \in 1..Len(messages[m].tool_calls) |-> messages[m].tool_calls[i].id]
              ELSE <<>>])

\* The tool_call_ids of the translated tool messages, in order.
OutputToolMessageIds ==
    Concat([m \in 1..Len(messages) |->
              IF messages[m].role = "tool" THEN <<messages[m].tool_call_id>> ELSE <<>>])

PositionsOf(seq, x) == { i \in 1..Len(seq) : seq[i] = x }

\* The n-th smallest member of a set of positions.
NthOf(S, n) == CHOOSE i \in S : Cardinality({ j \in S : j < i }) = n - 1

PairwiseDistinct(seq) ==
    \A i, j \in 1..Len(seq) : i # j => seq[i] # seq[j]

\* C8: in native mode the ids of all tool_calls entries across all translated
\* assistant messages are pairwise distinct, whatever ids the ToolUseBlocks carry.
ToolCallIdsDistinct ==
    tool_format = "native" => PairwiseDistinct(OutputToolCallIds)

\* Every ToolResultBlock for d comes in a message after every ToolUseBlock for d.
ResultsFollowUses(d) ==
    \A m, n \in 1..Len(request) :
        (d \in { UseIdsOf(request[m])[i] : i \in 1..Len(UseIdsOf(request[m])) }
         /\ d \in { ResultIdsOf(request[n])[i] : i \in 1..Len(ResultIdsOf(request[n])) })
        => m < n

\* C9: when an original id d is used by several ToolUseBlocks and later referenced
\* by as many ToolResultBlocks, the n-th tool message for d carries the id of the
\* n-th tool_calls entry for d (the first result keeps d).
NthResultMatchesNthToolCall ==
    tool_format = "native" =>
      \A d \in Ids :
        LET uses == PositionsOf(InputUseIds, d)
            ress == PositionsOf(InputResultIds, d)
        IN (/\ Cardinality(uses) >= 2
            /\ Cardinality(ress) = Cardinality(uses)
            /\ ResultsFollowUses(d))
           => \A n \in 1..Cardinality(uses) :
                 OutputToolMessageIds[NthOf(ress, n)] = OutputToolCallIds[NthOf(uses, n)]

\* In every prefix of the request no id has more results than uses.
ResultsReferenceEarlierUses ==
    \A k \in 1..Len(request) : \A d \in Ids :
        LET pre == SubSeq(request, 1, k)
            u   == Concat([m \in 1..(k - 1) |-> UseIdsOf(pre[m])])
            r   == Concat([m \in 1..k |-> ResultIdsOf(pre[m])])
        IN Cardinality(PositionsOf(r, d)) <= Cardinality(PositionsOf(u, d))

\* C10: when every ToolResultBlock references an id introduced by an earlier
\* ToolUseBlock and no id has more results than uses, every tool message's
\* tool_call_id is the id of a tool_calls entry of an earlier translated assistant
\* message, and no two tool messages carry the same tool_call_id.
ToolMessagesAnswerEarlierCalls ==
    (tool_format = "native" /\ ResultsReferenceEarlierUses) =>
      /\ \A k \in 1..Len(messages) :
           messages[k].role = "tool" =>
             \E a \in 1..(k - 1) :
                /\ messages[a].role = "assistant"
                /\ \E i \in 1..Len(messages[a].tool_calls) :
                      messages[a].tool_calls[i].id = messages[k].tool_call_id
      /\ PairwiseDistinct(OutputToolMessageIds)

\* C11: when all ToolUseBlock ids of a request are pairwise distinct, translation
\* changes no id: every tool_calls id is its block's original id, every tool
\* message's tool_call_id is the referenced tool_use_id, and id_mappings is empty.
UniqueIdsAreUnchanged ==
    PairwiseDistinct(InputUseIds) =>
      /\ id_mappings = <<>>
      /\ tool_format = "native" =>
            /\ OutputToolCallIds = InputUseIds
            /\ OutputToolMessageIds = InputResultIds

\* Two distinct ids used, then both answered, in native mode.
UniqueIdsAnsweredWitness ==
    /\ tool_format = "native"
    /\ PairwiseDistinct(InputUseIds)
    /\ Len(InputUseIds) = 2
    /\ Len(InputResultIds) = 1
    /\ InputResultIds[1] = InputUseIds[1]
    /\ OutputToolMessageIds = InputResultIds

----------------------------------------------------------------------------
\* Properties of the request dict (SpecParams)

\* max(1, ceil(len(text) * 2 / 5))
EstimateText(text) ==
    LET n == (Len(text) * 2 + 4) \div 5 IN IF n < 1 THEN 1 ELSE n

RECURSIVE SumOf(_)
SumOf(seq) == IF seq = <<>> THEN 0 ELSE Head(seq) + SumOf(Tail(seq))

\* The token estimate of the upstream messages: strings by EstimateText,
\* structured parts with 2 tokens of overhead each.
EstimatedPromptTokens(msgs) ==
    SumOf([i \in 1..Len(msgs) |->
             IF msgs[i].content.kind = "str" THEN EstimateText(msgs[i].content.text)
             ELSE IF msgs[i].content.kind = "parts"
             THEN SumOf([j \in 1..Len(msgs[i].content.parts) |->
                           EstimateText(msgs[i].content.parts[j]) + 2])
             ELSE 0])

MinOf(a, b) == IF a < b THEN a ELSE b
MaxOf(a, b) == IF a > b THEN a ELSE b

\* The call has returned for a configuration that declares max_context_window.
ReturnedWithWindow ==
    /\ IsSome(openai_request)
    /\ config.present
    /\ IsSome(config.max_context_window)

\* C12: when the configuration declares max_context_window = W, the returned
\* request satisfies estimated_prompt_tokens(messages) + max_tokens <= W - 256.
PromptAndCompletionFitWindow ==
    ReturnedWithWindow =>
        EstimatedPromptTokens(ValueOf(openai_request).messages)
            + ValueOf(openai_request).max_tokens
          <= ValueOf(config.max_context_window) - 256

\* C13: with max_context_window = W configured the returned max_tokens is
\* min(m, max(256, W - 256)), m being the requested max_tokens after the rewrite
\* of 1 to 32; with no W configured max_tokens is m, not capped.
MaxTokensCappedByConfiguredWindow ==
    IsSome(openai_request) =>
        LET given == ValueOf(anthropic_request).max_tokens
            m     == IF given = 1 THEN 32 ELSE given
        IN IF config.present /\ IsSome(config.max_context_window)
           THEN ValueOf(openai_request).max_tokens
                  = MinOf(m, MaxOf(256, ValueOf(config.max_context_window) - 256))
           ELSE ValueOf(openai_request).max_tokens = m

\* C14: the returned max_tokens is never 1: a requested 1 becomes 32 and capping
\* does not bring it back to 1; any other requested value is passed through
\* unless it is capped (and then it is lowered).
MaxTokensNeverOne ==
    IsSome(openai_request) =>
        LET given == ValueOf(anthropic_request).max_tokens
            out   == ValueOf(openai_request).max_tokens
        IN /\ out # 1
           /\ given = 1 => out = 32
           /\ given # 1 => \/ out = given
                           \/ /\ out < given
                              /\ config.present
                              /\ IsSome(PresetContextWindow(config.provider))

\* max_tokens = 1 was requested under a provider whose preset caps max_tokens.
OneRewrittenUnderCapWitness ==
    /\ IsSome(openai_request)
    /\ ValueOf(anthropic_request).max_tokens = 1
    /\ config.present /\ config.provider = "ollama"
    /\ ValueOf(openai_request).max_tokens = 32

----------------------------------------------------------------------------
\* Properties of the handler (SpecHandler)

\* A JSON number: true and false are none.
IsJsonNumber(f) == f.kind \in {"int", "float"}

\* Present and not a value within [0, 1].
OutsideUnitRange(f) == f.kind # "absent" /\ (~IsNumber(f) \/ f.num < 0 \/ f.num > 10)

\* The members of an object body that the validation rules reject, in the
\* order of the rules.
ViolatedFields(b) ==
    (IF b.model.kind # "str" THEN <<"model">> ELSE <<>>)
    \o (IF ~IsJsonNumber(b.max_tokens) \/ b.max_tokens.num <= 0
        THEN <<"max_tokens">> ELSE <<>>)
    \o (IF b.messages.kind # "list" \/ b.messages.items = <<>>
        THEN <<"messages">> ELSE <<>>)
    \o (IF OutsideUnitRange(b.temperature) THEN <<"temperature">> ELSE <<>>)
    \o (IF OutsideUnitRange(b.top_p) THEN <<"top_p">> ELSE <<>>)
    \o (IF b.stream.kind \notin {"absent", "bool"} THEN <<"stream">> ELSE <<>>)

\* The fields that a message "f1: m1; f2: m2; ..." lists.
ListedFields(message) ==
    [i \in 1..((Len(message) + 1) \div 4) |-> message[4 * i - 3]]

\* message is "field: message" entries joined by "; ".
IsFieldList(message) ==
    /\ (Len(message) + 1) % 4 = 0
    /\ \A i \in 1..Len(message) :
         /\ i % 4 = 2 => message[i] = ": "
         /\ i % 4 = 0 => message[i] = "; "

\* The response is the 400 of a failed validation.
IsValidationFailure(resp) ==
    /\ resp.status_code = 400
    /\ resp.content.kind = "error"
    /\ resp.content.message # <<"ValidationError">>

\* C15: a JSON body fails validation exactly when it is no object or one of
\* model, max_tokens, messages, temperature, top_p, stream breaks its rule; a
\* failing body gets HTTP 400 with invalid_request_error and a message listing
\* every violated field as "field: message" joined by "; ", without upstream call.
ValidationRejectsExactlyInvalidBodies ==
    (hpc # "received" /\ ValueOf(body).parseable) =>
        LET b == ValueOf(body)
            violated == IF b.is_object THEN ViolatedFields(b) ELSE <<"body">>
        IN IF violated # <<>>
           THEN /\ IsSome(response)
                /\ ValueOf(response).status_code = 400
                /\ ValueOf(response).content.error_type = "invalid_request_error"
                /\ IsFieldList(ValueOf(response).content.message)
                /\ ListedFields(ValueOf(response).content.message) = violated
                /\ upstream_request = None
           ELSE ~(IsSome(response) /\ upstream_request = None
                  /\ IsValidationFailure(ValueOf(response)))

\* C16: a body that is no parseable JSON gets HTTP 400 with error type
\* invalid_request_error, and no upstream call is made.
UnparseableBodyGets400 ==
    (hpc # "received" /\ ~ValueOf(body).parseable) =>
        /\ IsSome(response)
        /\ ValueOf(response).status_code = 400
        /\ ValueOf(response).content.error_type = "invalid_request_error"
        /\ upstream_request = None

\* C17: every HTTP response to POST /v1/messages carries the header X-Request-Id
\* with the request id generated at the start of handling the request.
EveryResponseCarriesRequestId ==
    IsSome(response) => ValueOf(response).x_request_id = request_id

\* s is a substring of the model name.
NameContains(name, s) == \E i \in 1..Len(name) : name[i] = s

\* C18: a requested model name containing opus, sonnet or haiku is sent upstream
\* as the configured model of that tier and any other name unchanged; the
\* response (message body or message_start) echoes the requested name.
ModelResolvedByTierAndEchoed ==
    LET name == ValueOf(body).model.name IN
    /\ IsSome(upstream_request) =>
         ValueOf(upstream_request).request.model =
            IF NameContains(name, "opus") THEN <<config.models.opus>>
            ELSE IF NameContains(name, "sonnet") THEN <<config.models.sonnet>>
            ELSE IF NameContains(name, "haiku") THEN <<config.models.haiku>>
            ELSE name
    /\ (IsSome(response) /\ ValueOf(response).content.kind \in {"message", "stream"}) =>
         ValueOf(ValueOf(response).content.value).model = name

----------------------------------------------------------------------------
\* Properties of the response converters (SpecResponse)

\* The stop_reason a returned conversion carries.
StopReasonOf(result) == ValueOf(ValueOf(result).value).stop_reason

\* finish_reason of the completion being converted (it has a choice).
FinishReasonGiven == ValueOf(openai_response).choices[1].finish_reason

\* stop -> end_turn, length -> max_tokens, tool_calls -> tool_use,
\* content_filter -> end_turn, any other value -> end_turn
MappedReason(value) ==
    CASE value = "stop" -> "end_turn"
      [] value = "length" -> "max_tokens"
      [] value = "tool_calls" -> "tool_use"
      [] value = "content_filter" -> "end_turn"
      [] OTHER -> "end_turn"

\* Both converters give the stop_reason `expected`, wherever they return.
BothGiveStopReason(expected) ==
    /\ (IsSome(converted) /\ ~ValueOf(converted).raised) =>
          StopReasonOf(converted) = expected
    /\ (IsSome(handler_converted) /\ ~ValueOf(handler_converted).raised) =>
          StopReasonOf(handler_converted) = expected

\* C19: the finish_reason mapping is total and deterministic: the four known
\* values and any other present value map as listed, absent maps to null, and
\* both implementations give the same result.
FinishReasonMappedAsListed ==
    (IsSome(openai_response) /\ ValueOf(openai_response).choices # <<>>) =>
        IF FinishReasonGiven = None
        THEN BothGiveStopReason(None)
        ELSE BothGiveStopReason(Some(MappedReason(ValueOf(FinishReasonGiven))))

\* C19 as amended: an empty finish_reason maps to null like an absent one.
FinishReasonMappedEmptyAsAbsent ==
    (IsSome(openai_response) /\ ValueOf(openai_response).choices # <<>>) =>
        IF FinishReasonGiven = None \/ FinishReasonGiven = Some("")
        THEN BothGiveStopReason(None)
        ELSE BothGiveStopReason(Some(MappedReason(ValueOf(FinishReasonGiven))))

\* Both converters returned for finish_reason "length".
BothMappedLengthWitness ==
    /\ IsSome(converted) /\ ~ValueOf(converted).raised
    /\ IsSome(handler_converted) /\ ~ValueOf(handler_converted).raised
    /\ FinishReasonGiven = Some("length")
    /\ StopReasonOf(converted) = Some("max_tokens")
    /\ StopReasonOf(handler_converted) = Some("max_tokens")

\* The content the claim describes for a choice: a text block iff content is
\* non-empty, then a tool_use block per tool call, the input being the parsed
\* object, or {raw: text} when the arguments do not parse.
ContentAsClaimed(result, choice) ==
    LET content == ValueOf(ValueOf(result).value).content
        tcs     == IF IsSome(choice.tool_calls) THEN ValueOf(choice.tool_calls) ELSE <<>>
        text    == IF IsSome(choice.content) /\ ValueOf(choice.content) # <<>>
                   THEN <<ValueOf(choice.content)>> ELSE <<>>
    IN /\ Len(content) = Len(text) + Len(tcs)
       /\ \A i \in 1..Len(text) :
            content[i].type = "text" /\ content[i].text = text[i]
       /\ \A i \in 1..Len(tcs) :
            LET block == content[Len(text) + i] IN
            /\ block.type = "tool_use"
            /\ block.id = tcs[i].id
            /\ block.name = tcs[i].name
            /\ block.input.kind \in {"object", "raw"}
            /\ block.input.text = tcs[i].arguments.text
            /\ block.input.kind = "raw" <=> tcs[i].arguments.kind = "invalid"

\* A completion with a choice and a usage whose tool calls all carry an
\* arguments string.
CompletionWithArgumentStrings ==
    /\ IsSome(openai_response)
    /\ ValueOf(openai_response).choices # <<>>
    /\ IsSome(ValueOf(openai_response).usage)
    /\ LET tcs == ValueOf(openai_response).choices[1].tool_calls IN
       IsSome(tcs) => \A i \in 1..Len(ValueOf(tcs)) : ValueOf(tcs)[i].arguments.kind # "none"

\* C20: the content of a converted completion is one text block iff
\* message.content is non-empty, then one tool_use block per tool call in order,
\* each input a JSON object (the parsed arguments, or {raw: string} when they do
\* not parse), and the conversion never fails whatever the arguments string is.
ContentBlocksFromCompletion ==
    CompletionWithArgumentStrings =>
        /\ IsSome(converted) =>
             /\ ~ValueOf(converted).raised
             /\ ContentAsClaimed(converted, ValueOf(openai_response).choices[1])
        /\ IsSome(handler_converted) =>
             /\ ~ValueOf(handler_converted).raised
             /\ ContentAsClaimed(handler_converted, ValueOf(openai_response).choices[1])

----------------------------------------------------------------------------
\* Properties of upstream failures and of the logs (SpecHandler)

\* The error type the mapping table gives a status.
ClaimedErrorType(status) ==
    CASE status = 400 -> "invalid_request_error"
      [] status = 401 -> "authentication_error"
      [] status = 403 -> "permission_error"
      [] status = 404 -> "not_found_error"
      [] status = 429 -> "rate_limit_error"
      [] OTHER -> "api_error"

\* The status code the upstream error carries, 500 when it carries none.
UpstreamErrorStatus ==
    LET e == ValueOf(upstream_error) IN
    IF e.status_code # None THEN e.status_code[1] ELSE 500

\* C21: when the upstream call fails, the client receives a JSON error body
\* whose HTTP status is the upstream error's status code (500 when it has
\* none), whose body status is that HTTP status and whose type follows the
\* table; no SSE stream is returned.
UpstreamFailureMappedToJsonError ==
    (hpc = "responded" /\ IsSome(upstream_error)) =>
        LET r == ValueOf(response) IN
        /\ r.content.kind = "error"
        /\ r.status_code = UpstreamErrorStatus
        /\ r.content.status = r.status_code
        /\ r.content.error_type = ClaimedErrorType(UpstreamErrorStatus)

\* A streaming request whose upstream call failed with 403 was answered.
StreamingCallForbiddenWitness ==
    /\ hpc = "responded"
    /\ upstream_error = Some(Exception(Some(403), None))
    /\ ValueOf(upstream_request).stream
    /\ ValueOf(response).status_code = 403
    /\ ValueOf(response).content.error_type = "permission_error"

----------------------------------------------------------------------------
\* Properties of the tool converters (SpecTools)

\* The result the mapping gives: the string "auto" yields "auto", the string
\* "any" yields "required", a dict of type tool with a name yields the function
\* choice, every other input yields "auto".
ListedChoice(tc) ==
    IF tc.kind = "str" /\ tc.type = "auto" THEN [type |-> "auto", name |-> <<>>]
    ELSE IF tc.kind = "str" /\ tc.type = "any" THEN [type |-> "required", name |-> <<>>]
    ELSE IF tc.kind = "dict" /\ tc.type = "tool" /\ tc.name # <<>>
    THEN [type |-> "function", name |-> tc.name]
    ELSE [type |-> "auto", name |-> <<>>]

\* C22: convert_tool_choice_to_openai is total: "auto" yields "auto", "any"
\* yields "required", {type: tool, name: N} yields the function choice of N,
\* every other input yields "auto"; it never yields "none".
ToolChoiceMappedAsListed ==
    IsSome(openai_tool_choice) =>
        /\ ValueOf(openai_tool_choice) = ListedChoice(ValueOf(given_tool_choice))
        /\ ValueOf(openai_tool_choice).type # "none"

\* C22 as amended: a dict {type: "any"} yields "required" as the string does.
ToolChoiceMappedWithAnyObject ==
    IsSome(openai_tool_choice) =>
        LET tc == ValueOf(given_tool_choice) IN
        /\ ValueOf(openai_tool_choice) =
             IF tc.kind = "dict" /\ tc.type = "any"
             THEN [type |-> "required", name |-> <<>>]
             ELSE ListedChoice(tc)
        /\ ValueOf(openai_tool_choice).type # "none"

\* The dict {type: "any"} was converted to "required".
AnyObjectRequiredWitness ==
    /\ given_tool_choice = Some(ToolChoice("dict", "any", None))
    /\ openai_tool_choice = Some(ChoiceString("required"))

\* entries is tools converted entry by entry, in order.
IsFunctionListOf(entries, tools) ==
    /\ Len(entries) = Len(tools)
    /\ \A i \in 1..Len(tools) :
         /\ entries[i].type = "function"
         /\ entries[i].function.name = tools[i].name
         /\ entries[i].function.description = tools[i].description
         /\ entries[i].function.parameters = tools[i].input_schema

\* C23: convert_tools_to_openai maps n tool definitions to n entries in the
\* same order, the i-th being the function entry of the i-th tool with name,
\* description and input_schema copied; a native request with a non-empty
\* tools list carries exactly this list.
ToolsConvertedInOrder ==
    /\ IsSome(openai_tools) => IsFunctionListOf(ValueOf(openai_tools), given_tools)
    /\ (IsSome(tools_request) /\ ValueOf(tools_request).tool_format = "native"
          /\ given_tools # <<>>) =>
         /\ ValueOf(tools_request).request.tools # <<>>
         /\ IsFunctionListOf(ValueOf(tools_request).request.tools[1], given_tools)

\* Three tools, not all the same, were converted and sent in a native request.
ThreeToolsConvertedWitness ==
    /\ given_tools = <<Tool1, Tool2, Tool1>>
    /\ IsSome(openai_tools)
    /\ IsSome(tools_request)
    /\ ValueOf(tools_request).tool_format = "native"
    /\ Len(ValueOf(tools_request).request.tools[1]) = 3

\* The system messages among msgs, in order.
SystemMessagesOf(msgs) == SelectSeq(msgs, LAMBDA m : m.role = "system")

\* C26: with an empty tools list in XML mode no XML tool contract is injected:
\* generate_xml_tool_instructions([]) is the empty string, no system message is
\* added and an existing system message is left unchanged; with a non-empty list
\* the contract is appended to the existing system message or inserted as a new
\* first system message.
XmlContractInjectedOnlyForTools ==
    /\ (IsSome(xml_instructions) /\ given_tools = <<>>) => ValueOf(xml_instructions) = <<>>
    /\ (IsSome(tools_request) /\ ValueOf(tools_request).tool_format = "xml") =>
         LET t    == ValueOf(tools_request)
             msgs == t.request.messages
             sys  == SystemMessagesOf(msgs)
         IN IF given_tools = <<>>
            THEN IF t.system.kind = "none"
                 THEN sys = <<>> /\ Len(msgs) = 1
                 ELSE /\ Len(sys) = 1 /\ Len(msgs) = 2
                      /\ msgs[1].role = "system"
                      /\ msgs[1].content.text = t.system.text
            ELSE /\ Len(sys) = 1 /\ Len(msgs) = 2
                 /\ msgs[1].role = "system"
                 /\ msgs[1].content.text =
                      IF t.system.kind = "none"
                      THEN generate_xml_tool_instructions(given_tools)
                      ELSE t.system.text \o <<"\n\n">>
                           \o generate_xml_tool_instructions(given_tools)
                 /\ generate_xml_tool_instructions(given_tools) # <<>>

\* An XML-mode request with an empty tools list and a system prompt was built,
\* and the instructions for the empty list generated.
EmptyToolsXmlWitness ==
    /\ given_tools = <<>>
    /\ xml_instructions = Some(<<>>)
    /\ IsSome(tools_request)
    /\ ValueOf(tools_request).tool_format = "xml"
    /\ ValueOf(tools_request).system.kind = "str"

----------------------------------------------------------------------------
\* Properties of the request parameters in XML mode (SpecParams)

----------------------------------------------------------------------------
\* Properties of the upstream request in XML mode (SpecHandler)

\* The request sent upstream.
UpstreamRequestDict == ValueOf(upstream_request).request

\* C25: when the configured tool format is xml, no upstream request contains a
\* role=tool message, a tool_calls field on an assistant message, a tools field
\* or a tool_choice field.
XmlConfigSendsNoNativeToolFields ==
    (config.tool_format = "xml" /\ IsSome(upstream_request)) =>
        /\ \A i \in 1..Len(UpstreamRequestDict.messages) :
             /\ UpstreamRequestDict.messages[i].role # "tool"
             /\ UpstreamRequestDict.messages[i].tool_calls = <<>>
        /\ UpstreamRequestDict.tools = <<>>
        /\ UpstreamRequestDict.tool_choice = <<>>

----------------------------------------------------------------------------
\* Properties of the conversion of one message (SpecMessage)

\* The message converted.
ConvertedMessage == request[1]

\* The texts of the text blocks of a block list, concatenated.
RECURSIVE BlockTexts(_)
BlockTexts(blocks) ==
    IF blocks = <<>> THEN <<>>
    ELSE (IF Head(blocks).type = "text" THEN Head(blocks).text ELSE <<>>)
         \o BlockTexts(Tail(blocks))

HasToolUse(blocks) == \E i \in 1..Len(blocks) : blocks[i].type = "tool_use"

\* C27: an assistant message with block content that yields no tool calls and
\* no text (an empty block list, or only empty text blocks) produces no upstream
\* message, in native and in XML mode; no emitted assistant message has both
\* empty or absent content and no tool_calls.
EmptyAssistantMessageOmitted ==
    (request # <<>> /\ ConvertedMessage.role = "assistant") =>
        /\ (~ConvertedMessage.is_str /\ ~HasToolUse(ConvertedMessage.blocks)
              /\ BlockTexts(ConvertedMessage.blocks) = <<>>) => messages = <<>>
        /\ \A i \in 1..Len(messages) :
             messages[i].role = "assistant" =>
                ~(messages[i].content.text = <<>> /\ messages[i].tool_calls = <<>>)

\* The characters strip() removes at both ends.
RECURSIVE Trimmed(_)
Trimmed(text) ==
    IF text = <<>> THEN text
    ELSE IF Head(text) \in {" ", "\n", "\t"} THEN Trimmed(Tail(text))
    ELSE IF text[Len(text)] \in {" ", "\n", "\t"} THEN Trimmed(SubSeq(text, 1, Len(text) - 1))
    ELSE text

\* Trimmed length at most 2, or one of the shortlist, or an opened <tool_code
\* that is not closed.
IsPrefillAsListed(text) ==
    LET t == Trimmed(text) IN
    \/ Len(t) <= 2
    \/ t \in { <<"{">>, <<"[">>, <<"BQ", "BQ", "BQ">>, <<"{", "DQ">>, <<"[", "{">>, <<"<">>,
               <<"<", "t", "o", "o", "l", "_", "c", "o", "d", "e">>,
               <<"<", "t", "o", "o", "l", "_", "c", "o", "d", "e", ">">> }
    \/ /\ Len(t) >= 10
       /\ SubSeq(t, 1, 10) = <<"<", "t", "o", "o", "l", "_", "c", "o", "d", "e">>
       /\ \A i \in 1..Len(t) :
            i + 11 <= Len(t) =>
              SubSeq(t, i, i + 11) # <<"<", "/", "t", "o", "o", "l", "_", "c", "o", "d", "e", ">">>

\* C28: an assistant message with string content is dropped exactly when it is
\* a prefill as listed; every other assistant string message produces exactly
\* one assistant message with the content unchanged. An assistant message with
\* block content and a tool_use block is never dropped.
PrefillDroppedExactlyAsListed ==
    (request # <<>> /\ ConvertedMessage.role = "assistant") =>
        /\ ConvertedMessage.is_str =>
             IF IsPrefillAsListed(ConvertedMessage.text)
             THEN messages = <<>>
             ELSE /\ Len(messages) = 1
                  /\ messages[1].role = "assistant"
                  /\ messages[1].content.kind = "str"
                  /\ messages[1].content.text = ConvertedMessage.text
                  /\ messages[1].tool_calls = <<>>
        /\ (~ConvertedMessage.is_str /\ HasToolUse(ConvertedMessage.blocks)) =>
             messages # <<>>

\* An assistant string that is a prefill only once trimmed was dropped.
TrimmedPrefillDroppedWitness ==
    /\ request = <<AssistantText(<<" ", "o", "k", "\n">>)>>
    /\ messages = <<>>

----------------------------------------------------------------------------
\* Properties of the usage and error records (SpecHandler)

\* The request was answered with a message or with a stream.
AnsweredSuccessfully ==
    hpc = "responded" /\ ValueOf(response).content.kind \in {"message", "stream"}

\* The request was answered with an error.
AnsweredWithError == hpc = "responded" /\ ValueOf(response).content.kind = "error"

\* C29: every request that completes successfully, streaming or not, results in
\* exactly one usage record, every request that fails in an error record unless
\* its status is suppressed, and no request produces both.
OneUsageRecordOrOneErrorRecord ==
    /\ AnsweredSuccessfully => (Len(usage_records) = 1 /\ error_records = <<>>)
    /\ AnsweredWithError =>
         /\ usage_records = <<>>
         /\ ValueOf(response).status_code \notin {401, 402, 404, 429} =>
              Len(error_records) = 1
    /\ ~(usage_records # <<>> /\ error_records # <<>>)

\* The status record_error reads from the upstream error: its status_code, else
\* its status, else none.
StatusOfUpstreamError ==
    LET e == ValueOf(upstream_error) IN
    IF e.status_code # <<>> THEN e.status_code ELSE e.status

\* C30: record_error appends no record when the error's status is 401, 402, 404
\* or 429 and exactly one record for every other error (any other status, or no
\* status); the suppression does not affect the HTTP error response.
SuppressedStatusesLeaveNoRecord ==
    /\ (hpc = "responded" /\ IsSome(upstream_error)) =>
         /\ IF StatusOfUpstreamError # <<>>
               /\ StatusOfUpstreamError[1] \in {401, 402, 404, 429}
            THEN error_records = <<>>
            ELSE /\ Len(error_records) = 1
                 /\ error_records[1].status = StatusOfUpstreamError
                 /\ error_records[1].request_id = ValueOf(request_id)
         /\ ValueOf(response).content.kind = "error"
         /\ ValueOf(response).status_code = UpstreamErrorStatus
    /\ (AnsweredWithError /\ IsSome(upstream_response)) => Len(error_records) = 1

\* An upstream 429 was answered with 429 and left no record.
RateLimitSuppressedWitness ==
    /\ hpc = "responded"
    /\ upstream_error = Some(Exception(Some(429), None))
    /\ error_records = <<>>
    /\ ValueOf(response).status_code = 429

----------------------------------------------------------------------------
\* Properties of tool_choice through the handler (SpecHandler)

\* tool_choice of the body, which is set.
BodyToolChoice == ValueOf(ValueOf(body).tool_choice)

\* C32: a validated native-mode request whose tool_choice is {type: "tool",
\* name: N} is sent upstream with tool_choice {type: "function", function:
\* {name: N}}, and one whose tool_choice is {type: "any"} with "required".
ToolChoiceObjectTranslated ==
    (IsSome(upstream_request) /\ config.tool_format = "native"
       /\ ValueOf(body).tool_choice # <<>> /\ BodyToolChoice.kind = "dict") =>
        /\ BodyToolChoice.type = "tool" =>
             UpstreamRequestDict.tool_choice =
                <<[type |-> "function", name |-> BodyToolChoice.name]>>
        /\ BodyToolChoice.type = "any" =>
             UpstreamRequestDict.tool_choice = <<[type |-> "required", name |-> <<>>]>>

----------------------------------------------------------------------------
\* Properties of the re-framed deltas (Spec)

\* The events yielded by the last step.
NewEvents == SubSeq(events, Len(prev.events) + 1, Len(events))

\* C33: every input_json_delta of an upstream tool-call index carries the block
\* index announced by the content_block_start of that index, also when ids are
\* absent or shared: the input_json_delta yielded for a tool-call delta right
\* after the content_block_start that the same delta caused carries its index.
InputJsonDeltaCarriesAnnouncedIndex ==
    \A p \in 1..(Len(NewEvents) - 1) :
        (/\ NewEvents[p].type = "content_block_start"
         /\ NewEvents[p].ctype = "tool_use"
         /\ NewEvents[p + 1].type = "content_block_delta"
         /\ NewEvents[p + 1].ctype = "input_json_delta") =>
            NewEvents[p + 1].index = NewEvents[p].index

\* The stream left its loop by [DONE] or by exhaustion of the upstream.
EndedNormally == pc = "done" /\ line.kind \in {"done", "none"}

\* C34: on a normal stream end a message_delta is emitted exactly when a chunk
\* carried a usage; it follows every event of the chunks, directly precedes
\* message_stop, carries the last usage observed and has stop_reason end_turn.
MessageDeltaOnNormalEndIffUsage ==
    /\ (pc = "reading" /\ line.kind = "data") =>
          usage = IF line.usage.present
                  THEN [set |-> TRUE,
                        input_tokens |-> line.usage.prompt_tokens,
                        output_tokens |-> line.usage.completion_tokens]
                  ELSE prev.usage
    /\ (pc = "reading" /\ line.kind # "data") => usage = prev.usage
    /\ pc = "reading" => CountEvents("message_delta") = 0
    /\ EndedNormally =>
          /\ usage = prev.usage
          /\ events = prev.events \o
                (IF usage.set THEN <<MessageDelta("end_turn", usage)>> ELSE <<>>)
                \o <<MessageStop>>
          /\ CountEvents("message_delta") = IF usage.set THEN 1 ELSE 0

\* A stream ended by [DONE] after a finish_reason closed a tool_use block and a
\* usage was reported.
DoneAfterToolCallsWithUsageWitness ==
    /\ EndedNormally
    /\ line.kind = "done"
    /\ usage.set /\ usage.output_tokens = 1
    /\ CountEvents("content_block_stop") >= 1
    /\ \E b \in DOMAIN content_blocks : content_blocks[b].type = "tool_use"
    /\ events[Len(events) - 1] = MessageDelta("end_turn", usage)

\* C35: a data line whose payload is no valid JSON, a blank line and a comment
\* line each emit no event and leave content_blocks, tool_calls and usage as they
\* were; the generator goes on reading in the state it had, so the rest of the
\* stream is converted as if the line had not been there.
IgnoredLinesChangeNothing ==
    line.kind \in {"badjson", "blank", "comment"} =>
        /\ events = prev.events
        /\ content_blocks = prev.content_blocks
        /\ tool_calls = prev.tool_calls
        /\ usage = prev.usage
        /\ pc = "reading"
        /\ upstream = "open"

\* A line that is no JSON arrived after blocks were opened and a usage was seen.
BadJsonMidStreamWitness ==
    /\ line.kind = "badjson"
    /\ Len(content_blocks) >= 2
    /\ DOMAIN tool_calls # {}
    /\ usage.set

\* The last step handed a chunk with a text delta to _process_chunk.
TextDeltaArrived ==
    /\ line.kind = "data"
    /\ ~IsApiError(line.err)
    /\ line.choices
    /\ line.content # <<>>

\* Before the last step the most recently opened block was a text block.
LastOpenedWasText ==
    /\ prev.content_blocks # <<>>
    /\ prev.content_blocks[Len(prev.content_blocks)].type = "text"

\* C38: a text delta arriving when no block was opened yet or the most recently
\* opened block is a tool_use block emits content_block_start (fresh index, empty
\* text) and then the delta with that index; one arriving when the most recently
\* opened block is a text block emits the delta first, with that block's index.
TextDeltaOpensOrReusesBlock ==
    TextDeltaArrived =>
        LET n == Len(prev.content_blocks) IN
        IF LastOpenedWasText
        THEN NewEvents[1] = BlockDelta(n - 1, "text_delta", line.content)
        ELSE /\ NewEvents[1] = BlockStart(n, "text", <<>>, "", "")
             /\ NewEvents[2] = BlockDelta(n, "text_delta", line.content)
             /\ \A p \in 1..Len(prev.events) :
                   prev.events[p].type = "content_block_start" => prev.events[p].index # n

\* A text delta arrived after a tool_use block that followed a text block.
TextAfterToolUseWitness ==
    /\ TextDeltaArrived
    /\ Len(prev.content_blocks) = 2
    /\ prev.content_blocks[1].type = "text"
    /\ prev.content_blocks[2].type = "tool_use"
    /\ content_blocks[3].type = "text"

RECURSIVE DeltaTexts(_, _, _)
\* The concatenated payloads of the deltas of one type among evs; index NoIndex
\* takes every block.
DeltaTexts(evs, dtype, index) ==
    IF evs = <<>> THEN <<>>
    ELSE (IF /\ Head(evs).type = "content_block_delta"
             /\ Head(evs).ctype = dtype
             /\ index \in {NoIndex, Head(evs).index}
          THEN Head(evs).text ELSE <<>>)
            \o DeltaTexts(Tail(evs), dtype, index)

RECURSIVE AccumulatedText(_)
\* The concatenated text of the text blocks of the stream state.
AccumulatedText(blocks) ==
    IF blocks = <<>> THEN <<>>
    ELSE (IF Head(blocks).type = "text" THEN Head(blocks).text ELSE <<>>)
            \o AccumulatedText(Tail(blocks))

\* The indices of the tool_use blocks.
ToolUseIndices == { b \in 0..(Len(content_blocks) - 1) : content_blocks[b + 1].type = "tool_use" }

\* The ways to pair every tool_use block with the upstream tool call it was opened for.
BlockPairings ==
    { m \in [ToolUseIndices -> DOMAIN tool_calls] :
        /\ \A b1, b2 \in ToolUseIndices : m[b1] = m[b2] => b1 = b2
        /\ \A b \in ToolUseIndices :
              /\ content_blocks[b + 1].id = tool_calls[m[b]].id
              /\ content_blocks[b + 1].name = tool_calls[m[b]].name }

\* C37: until termination deltas are forwarded without loss, merge or reordering:
\* the text_delta texts concatenate to the text accumulated from delta.content,
\* and the input_json_delta events of each tool call's block concatenate to the
\* arguments accumulated for that tool call.
DeltasForwardedWithoutLossOrMerge ==
    (pc = "reading" \/ EndedNormally) =>
        /\ DeltaTexts(events, "text_delta", NoIndex) = AccumulatedText(content_blocks)
        /\ \E m \in BlockPairings :
              \A b \in ToolUseIndices :
                  DeltaTexts(events, "input_json_delta", b) = tool_calls[m[b]].input

----------------------------------------------------------------------------
\* Properties of one translated user message (SpecMessage)

\* The blocks of one type among the blocks of a message.
BlocksOfType(blocks, type) == SelectSeq(blocks, LAMBDA b : b.type = type)

\* C36: in native mode a user message with k text blocks and m tool_result
\* blocks yields m role=tool messages, one per tool_result in block order, and
\* after them, when k >= 1, one user message whose content is the k texts joined
\* by newlines.
UserBlocksYieldToolsThenJoinedText ==
    (request # <<>> /\ tool_format = "native"
       /\ request[1].role = "user" /\ ~request[1].is_str) =>
        LET results == BlocksOfType(request[1].blocks, "tool_result")
            tblocks == BlocksOfType(request[1].blocks, "text")
            texts   == [i \in 1..Len(tblocks) |-> tblocks[i].text]
            m       == Len(results)
        IN /\ Len(messages) = m + (IF texts # <<>> THEN 1 ELSE 0)
           /\ \A i \in 1..m :
                 /\ messages[i].role = "tool"
                 /\ messages[i].tool_call_id = results[i].id
                 /\ messages[i].content = StringContent(ResultContent(results[i].content))
           /\ texts # <<>> =>
                 messages[m + 1] =
                    OpenAIMessage("user", StringContent(JoinWith(<<"\n">>, texts)), <<>>, NoId)

----------------------------------------------------------------------------
\* Properties of the emitted messages list (SpecParams)

\* The emitted messages list.
EmittedMessages == ValueOf(openai_request).messages

\* Role and content of the messages that are no tool messages, in order.
NonToolMessages(msgs) ==
    LET kept == SelectSeq(msgs, LAMBDA m : m.role # "tool")
    IN [i \in 1..Len(kept) |-> [role |-> kept[i].role, content |-> kept[i].content]]

\* The translation of one input message on its own, as role and content.
TranslatedAlone(msg) ==
    NonToolMessages((CHOOSE r \in convert_message(msg, NewContext, tool_format) : TRUE).result)

\* C40: the emitted messages list holds at most one system message, at position
\* 0 (with the XML contract at its end in XML mode), followed by the translations
\* of the input messages in input order, so the non-tool messages that are not
\* dropped come in the order of their inputs.
SystemFirstThenMessagesInInputOrder ==
    IsSome(openai_request) =>
        LET req    == ValueOf(anthropic_request)
            hasSys == EmittedMessages # <<>> /\ EmittedMessages[1].role = "system"
            rest   == IF hasSys THEN Tail(EmittedMessages) ELSE EmittedMessages
            xml    == generate_xml_tool_instructions(ValueOf(req.tools))
        IN /\ \A i \in DOMAIN EmittedMessages :
                 EmittedMessages[i].role = "system" => i = 1
           /\ hasSys <=> (SystemIsSet(req.system) \/ (tool_format = "xml" /\ ToolsAreSet(req.tools)))
           /\ (hasSys /\ tool_format = "xml" /\ ToolsAreSet(req.tools)) =>
                 LET text == EmittedMessages[1].content.text IN
                 /\ Len(text) >= Len(xml)
                 /\ SubSeq(text, Len(text) - Len(xml) + 1, Len(text)) = xml
           /\ NonToolMessages(rest) =
                 Concat([i \in 1..Len(request) |-> TranslatedAlone(request[i])])

\* A system prompt was emitted before a history of four messages of which the
\* last, a prefill, was dropped and one turn produced tool messages.
SystemBeforeLongHistoryWitness ==
    /\ IsSome(openai_request)
    /\ Len(request) = 4
    /\ EmittedMessages[1].role = "system"
    /\ Len(EmittedMessages) = 6
    /\ EmittedMessages[4].role = "tool"
    /\ EmittedMessages[6].role = "user"

----------------------------------------------------------------------------
\* Properties of the record files (SpecRecorder)

\* C31: a failure while a usage or error record is written (mkdir, open,
\* json.dumps or the write) never changes the outcome: record_usage and
\* record_error return normally and the handler returns the response it would
\* have returned had the write succeeded.
WriteFailureNeverChangesOutcome ==
    \A p \in DOMAIN workers :
        /\ ~workers[p].raised
        /\ IsSome(workers[p].outcome) => workers[p].outcome = workers[p].planned
        /\ workers[p].pc = "done" =>
              workers[p].returned = Some(response_for(ValueOf(workers[p].planned)))

\* A completion was answered with 200 although its usage record could not be
\* written, and an upstream error with its status although its error record
\* could not be written.
BothRecordsFailedWitness ==
    /\ \E p \in DOMAIN workers :
          /\ workers[p].pc = "done"
          /\ workers[p].failed
          /\ ValueOf(workers[p].planned).kind = "success"
          /\ ValueOf(workers[p].returned).status_code = 200
    /\ \E p \in DOMAIN workers :
          /\ workers[p].pc = "done"
          /\ workers[p].failed
          /\ ValueOf(workers[p].planned).kind = "error"
          /\ ValueOf(workers[p].returned).status_code = 500
    /\ files = [usage |-> <<>>, error |-> <<>>]

\* f consists of whole lines: a record, then its newline.
WholeLines(f) ==
    /\ Len(f) % 2 = 0
    /\ \A i \in 1..Len(f) : f[i].newline <=> (i % 2 = 0)

\* The number of lines of f that are the record of request p.
LinesOf(f, p) ==
    Cardinality({ i \in 1..Len(f) : ~f[i].newline /\ ValueOf(f[i].json).timestamp = p })

\* C39: when several requests finish concurrently and append to the same file,
\* each record is written as one complete line by a single write: in every
\* interleaving the file consists of whole records only, and every record whose
\* write succeeded is there exactly once.
ConcurrentAppendsYieldWholeRecords ==
    /\ WholeLines(files.usage)
    /\ WholeLines(files.error)
    /\ \A p \in DOMAIN workers :
          /\ LinesOf(files.usage, p) + LinesOf(files.error, p)
                = IF workers[p].written THEN 1 ELSE 0
          /\ workers[p].written => LinesOf(files[workers[p].target], p) = 1

\* Two requests wrote to the same file, the one that started its append later
\* being the first to write.
TwoRecordsInOneFileWitness ==
    /\ \A p \in DOMAIN workers : workers[p].pc = "done" /\ workers[p].written
    /\ Len(files.usage) = 4
    /\ ValueOf(files.usage[1].json).timestamp = 2
    /\ ValueOf(files.usage[3].json).timestamp = 1

====
